---- MODULE Spec2Model ----
(***************************************************************************)
(* A model of the evaluation orchestration engine of llmeval:              *)
(*   - the two sliding-window rate limiters (RateLimit, APIRateLimiter),   *)
(*   - the model client's invoke with its retry loop,                      *)
(*   - the background task run_evaluation_task with its generation and     *)
(*     evaluation phases, batch scoring, merging and final metrics.        *)
(* Time is counted in whole seconds.  Percentages, which the code computes *)
(* as floating point quotients, are kept as exact fractions.               *)
(***************************************************************************)
EXTENDS Integers, Sequences, FiniteSets, TLC

(***************************************************************************)
(* Bounds of the model                                                     *)
(***************************************************************************)
\* number of threads that call a rate limiter
NumCallers == 2
\* the clock stops advancing here
MaxTime == 125
\* requests_per_minute / max_requests_per_minute given to the constructor
RequestsPerMinute == 2

(***************************************************************************)
(* Program constants                                                       *)
(***************************************************************************)
\* timedelta(minutes=1), in seconds
WindowSeconds == 60
\* the 61 of "61 - (now - oldest).seconds"
WaitBase == 61

Callers == 1..NumCallers
NoCaller == 0
LimiterClasses == {"RateLimit", "APIRateLimiter"}
\* the steps by which the clock advances between two calls
TickSteps == {20, 30}

VARIABLES
    clock,          \* datetime.now(), in seconds
    limiterClass,   \* which limiter class the instance under study is
    requests,       \* self.requests: the recorded timestamps, oldest first
    lockHolder,     \* self.lock: the caller inside "with self.lock", or NoCaller
    callerPc,       \* per caller: "idle" or "sleeping" (inside time.sleep)
    callerNow,      \* per caller: the local variable now
    callerWake,     \* per caller: the instant its time.sleep ends
    admissions      \* the instants at which wait_if_needed returned (last ones)

limiterVars == <<clock, limiterClass, requests, lockHolder, callerPc,
                 callerNow, callerWake, admissions>>

VARIABLES
    invClient,      \* the class of the client under study
    invPc,          \* "idle", "attempting", "returned" or "raised"
    invAttempt,     \* the loop variable attempt
    invResult,      \* the value returned
    invRaised,      \* the exception that left the function
    invAcquires,    \* calls of rate_limiter.wait_if_needed in this invocation
    invPosts,       \* calls of requests.post in this invocation
    invSleeps,      \* the time.sleep durations of this invocation
    invOutcomes,    \* what the attempts of this invocation met
    invCalls        \* invocations started so far

invokeVars == <<invClient, invPc, invAttempt, invResult, invRaised,
                invAcquires, invPosts, invSleeps, invOutcomes, invCalls>>

VARIABLES
    status,             \* evaluations[id]["status"]
    progress,           \* evaluations[id]["progress"], a fraction
    total_qcm,          \* evaluations[id]["total_qcm"]
    completed_qcm,      \* evaluations[id]["completed_qcm"]
    qcm_list,           \* evaluations[id]["qcm_list"]
    endTimeStamps,      \* how many times evaluations[id]["end_time"] was set
    storedResults,      \* whether evaluations[id]["results"] was set
    recError,           \* evaluations[id]["error"]
    selected_criteria,  \* the argument selected_criteria (None is <<>>)
    test_mode,          \* the argument test_mode
    pc,                 \* where run_evaluation_task stands
    genQueue,           \* the criteria of the QCM still to generate
    qcm_counter,        \* the nonlocal qcm_counter of process_qcm
    results,            \* the local results of _evaluate_model_with_updates
    batch_idx,          \* the loop variable batch_idx
    batch_pos,          \* the position of the next QCM inside the batch
    batch_results,      \* the local batch_results of _process_evaluation_batch
    cache,              \* request_queue.response_cache, prompt type 'standard'
    events,             \* the messages handed to manager.broadcast, in order
    outcomes            \* per scored QCM: what asking the model gave

recordVars == <<status, progress, total_qcm, completed_qcm, qcm_list,
                endTimeStamps, storedResults, recError>>

taskVars == <<selected_criteria, test_mode, pc, genQueue, qcm_counter, results,
              batch_idx, batch_pos, batch_results, cache, events, outcomes>>

VARIABLES
    sinkMode,       \* "up": every publish is delivered; "flaky": it may fail
    undelivered     \* the publishes of the run that failed

publishVars == <<sinkMode, undelivered>>

runVars == <<recordVars, taskVars, publishVars>>

VARIABLES
    gnMethod,       \* the method of QCMGenerator under study
    gnItems,        \* the QCM the method has still to produce
    gnAttempt,      \* the loop variable attempt
    gnCalls,        \* calls of invoke_model made for the current QCM
    gnOutput,       \* the QCM returned so far (qcm_list, or the one QCM)
    gnPc,           \* "running", "returned" or "raised"
    gnLast          \* the last attempt: what came back and what was done

generatorVars == <<gnMethod, gnItems, gnAttempt, gnCalls, gnOutput, gnPc, gnLast>>

VARIABLES
    rcClass,        \* the cache class under study
    rcCache,        \* RequestCache.cache, or RequestQueue.response_cache
    rcAccess,       \* RequestCache.access_times
    rcNow,          \* datetime.now() as the cache operations read it
    rcLast,         \* the last cache operation and what it returned or evicted
    rcStored        \* per key: the value of the last put that no eviction undid

cacheVars == <<rcClass, rcCache, rcAccess, rcNow, rcLast, rcStored>>

VARIABLES
    mgB1,           \* a batch_results
    mgB2,           \* another batch_results
    mgOneTwo,       \* the results that receive B1 and then B2
    mgTwoOne,       \* the results that receive B2 and then B1
    mgPc            \* "empty", "half" or "merged"

mergeVars == <<mgB1, mgB2, mgOneTwo, mgTwoOne, mgPc>>

VARIABLES
    svEvaluations,  \* LLMEvaluationService.evaluations
    svTasks,        \* the run_evaluation_task instances added as background tasks
    svReturnedIds,  \* the values uuid.uuid4() returned to start_evaluation
    svLast          \* the last step of the service: who took it

serviceVars == <<svEvaluations, svTasks, svReturnedIds, svLast>>

VARIABLES
    scCache,        \* RequestQueue.response_cache, shared by all evaluations
    scThreads,      \* per scoring thread: its place in _evaluate_single_qcm
    scCalls         \* per question: the calls of ask_question that returned a letter

scoringVars == <<scCache, scThreads, scCalls>>

VARIABLES
    avCriteria,     \* advanced_criteria of _process_evaluation_batch
    avBatch,        \* its batch
    avPos,          \* the place of "for qcm in batch"
    avResults,      \* its batch_results
    avProbed        \* per QCM gone through: what scoring gave, whether probes ran

advancedVars == <<avCriteria, avBatch, avPos, avResults, avProbed>>

VARIABLES
    cnFunction,     \* the analysis under study
    cnResponses,    \* its argument responses
    cnResult        \* what it returned

consistencyVars == <<cnFunction, cnResponses, cnResult>>

(***************************************************************************)
(* Helpers on sequences                                                    *)
(***************************************************************************)
Max(a, b) == IF a >= b THEN a ELSE b

Min(a, b) == IF a <= b THEN a ELSE b

RECURSIVE DropWhileOld(_, _)
\* popleft while (now - requests[0]) > timedelta(minutes=1)
DropWhileOld(s, now) ==
    IF s # <<>> /\ now - Head(s) > WindowSeconds
    THEN DropWhileOld(Tail(s), now)
    ELSE s

\* timedelta.seconds: the seconds field of a normalised timedelta
TimedeltaSeconds(d) == d % 86400

\* deque(maxlen=n).append(x): a full deque drops its leftmost element
DequeAppend(s, x, n) ==
    IF Len(s) >= n THEN Append(Tail(s), x) ELSE Append(s, x)

\* the last RequestsPerMinute + 1 instants of admission
RecordAdmission(adm, t) ==
    IF Len(adm) > RequestsPerMinute THEN Append(Tail(adm), t) ELSE Append(adm, t)

(***************************************************************************)
(* RateLimit (legal_assistant.py)                                          *)
(***************************************************************************)
\* the list comprehension: keep req_time with now - req_time < 1 minute
RateLimitPrune(s, now) == SelectSeq(s, LAMBDA t : now - t < WindowSeconds)

\* a limiter that sleeps the age of the oldest request, not what is left of
\* its minute
RateLimitSleepTimeElapsed(s, now) == TimedeltaSeconds(now - s[1])

\* sleep_time = 61 - (now - self.requests[0]).seconds
RateLimitSleepTime(s, now) == WaitBase - TimedeltaSeconds(now - s[1])

\* a wait_if_needed that sleeps without holding the lock
RateLimitEnterSleepsUnlocked(c) ==
    /\ limiterClass = "RateLimit"
    /\ callerPc[c] = "idle"
    /\ lockHolder = NoCaller
    /\ LET now == clock
           pruned == RateLimitPrune(requests, now)
       IN IF Len(pruned) >= RequestsPerMinute
          THEN /\ clock + RateLimitSleepTime(pruned, now) <= MaxTime
               /\ requests' = pruned
               /\ callerPc' = [callerPc EXCEPT ![c] = "sleeping"]
               /\ callerNow' = [callerNow EXCEPT ![c] = now]
               /\ callerWake' = [callerWake EXCEPT
                                   ![c] = clock + RateLimitSleepTime(pruned, now)]
               /\ UNCHANGED <<admissions, lockHolder>>
          ELSE /\ requests' = Append(pruned, now)
               /\ admissions' = RecordAdmission(admissions, clock)
               /\ UNCHANGED <<lockHolder, callerPc, callerNow, callerWake>>
    /\ UNCHANGED <<clock, limiterClass>>
    /\ UNCHANGED <<invokeVars, runVars, generatorVars, cacheVars, mergeVars,
                   serviceVars, scoringVars,
                   advancedVars, consistencyVars>>

\* wait_if_needed up to its return, or up to time.sleep when the window is full
RateLimitEnter(c) ==
    /\ limiterClass = "RateLimit"
    /\ callerPc[c] = "idle"
    /\ lockHolder = NoCaller
    /\ LET now == clock
           pruned == RateLimitPrune(requests, now)
       IN IF Len(pruned) >= RequestsPerMinute
          THEN /\ clock + RateLimitSleepTime(pruned, now) <= MaxTime
               /\ requests' = pruned
               /\ lockHolder' = c
               /\ callerPc' = [callerPc EXCEPT ![c] = "sleeping"]
               /\ callerNow' = [callerNow EXCEPT ![c] = now]
               /\ callerWake' = [callerWake EXCEPT
                                   ![c] = clock + RateLimitSleepTime(pruned, now)]
               /\ UNCHANGED admissions
          ELSE /\ requests' = Append(pruned, now)
               /\ admissions' = RecordAdmission(admissions, clock)
               /\ UNCHANGED <<lockHolder, callerPc, callerNow, callerWake>>
    /\ UNCHANGED <<clock, limiterClass>>
    /\ UNCHANGED <<invokeVars, runVars, generatorVars, cacheVars, mergeVars,
                   serviceVars, scoringVars,
                   advancedVars, consistencyVars>>

\* a wake that appends and returns but keeps the lock
RateLimitWakeKeepsLock(c) ==
    /\ limiterClass = "RateLimit"
    /\ callerPc[c] = "sleeping"
    /\ lockHolder = c
    /\ clock >= callerWake[c]
    /\ requests' = Append(requests, callerNow[c])
    /\ admissions' = RecordAdmission(admissions, clock)
    /\ callerPc' = [callerPc EXCEPT ![c] = "idle"]
    /\ UNCHANGED <<clock, limiterClass, callerNow, callerWake, lockHolder>>
    /\ UNCHANGED <<invokeVars, runVars, generatorVars, cacheVars, mergeVars,
                   serviceVars, scoringVars,
                   advancedVars, consistencyVars>>

\* time.sleep returned: self.requests.append(now), the lock is released
RateLimitWake(c) ==
    /\ limiterClass = "RateLimit"
    /\ callerPc[c] = "sleeping"
    /\ lockHolder = c
    /\ clock >= callerWake[c]
    /\ requests' = Append(requests, callerNow[c])
    /\ admissions' = RecordAdmission(admissions, clock)
    /\ lockHolder' = NoCaller
    /\ callerPc' = [callerPc EXCEPT ![c] = "idle"]
    /\ UNCHANGED <<clock, limiterClass, callerNow, callerWake>>
    /\ UNCHANGED <<invokeVars, runVars, generatorVars, cacheVars, mergeVars,
                   serviceVars, scoringVars,
                   advancedVars, consistencyVars>>

(***************************************************************************)
(* APIRateLimiter (advanced_llm_testing.py)                                *)
(***************************************************************************)
\* wait_time = 61 - (now - oldest_request).seconds; time.sleep(max(0, wait_time))
APIRateLimiterWaitTime(s, now) == Max(0, WaitBase - TimedeltaSeconds(now - s[1]))

APIRateLimiterEnter(c) ==
    /\ limiterClass = "APIRateLimiter"
    /\ callerPc[c] = "idle"
    /\ lockHolder = NoCaller
    /\ LET now == clock
           cleaned == DropWhileOld(requests, clock)
       IN IF Len(cleaned) >= RequestsPerMinute
          THEN /\ clock + APIRateLimiterWaitTime(cleaned, now) <= MaxTime
               /\ requests' = cleaned
               /\ lockHolder' = c
               /\ callerPc' = [callerPc EXCEPT ![c] = "sleeping"]
               /\ callerNow' = [callerNow EXCEPT ![c] = now]
               /\ callerWake' = [callerWake EXCEPT
                                   ![c] = clock + APIRateLimiterWaitTime(cleaned, now)]
               /\ UNCHANGED admissions
          ELSE /\ requests' = DequeAppend(cleaned, now, RequestsPerMinute)
               /\ admissions' = RecordAdmission(admissions, clock)
               /\ UNCHANGED <<lockHolder, callerPc, callerNow, callerWake>>
    /\ UNCHANGED <<clock, limiterClass>>
    /\ UNCHANGED <<invokeVars, runVars, generatorVars, cacheVars, mergeVars,
                   serviceVars, scoringVars,
                   advancedVars, consistencyVars>>

\* time.sleep returned: _cleanup_old_requests() again, then append(now)
APIRateLimiterWake(c) ==
    /\ limiterClass = "APIRateLimiter"
    /\ callerPc[c] = "sleeping"
    /\ lockHolder = c
    /\ clock >= callerWake[c]
    /\ requests' = DequeAppend(DropWhileOld(requests, clock), callerNow[c],
                               RequestsPerMinute)
    /\ admissions' = RecordAdmission(admissions, clock)
    /\ lockHolder' = NoCaller
    /\ callerPc' = [callerPc EXCEPT ![c] = "idle"]
    /\ UNCHANGED <<clock, limiterClass, callerNow, callerWake>>
    /\ UNCHANGED <<invokeVars, runVars, generatorVars, cacheVars, mergeVars,
                   serviceVars, scoringVars,
                   advancedVars, consistencyVars>>

(***************************************************************************)
(* The passage of time                                                     *)
(***************************************************************************)
Tick ==
    /\ \E d \in TickSteps :
          /\ clock + d <= MaxTime
          /\ clock' = clock + d
    /\ UNCHANGED <<limiterClass, requests, lockHolder, callerPc, callerNow,
                   callerWake, admissions>>
    /\ UNCHANGED <<invokeVars, runVars, generatorVars, cacheVars, mergeVars,
                   serviceVars, scoringVars,
                   advancedVars, consistencyVars>>

\* the sleeping caller's time.sleep runs to its end
SleepElapses ==
    /\ \E c \in Callers :
          /\ callerPc[c] = "sleeping"
          /\ clock < callerWake[c]
          /\ clock' = callerWake[c]
    /\ UNCHANGED <<limiterClass, requests, lockHolder, callerPc, callerNow,
                   callerWake, admissions>>
    /\ UNCHANGED <<invokeVars, runVars, generatorVars, cacheVars, mergeVars,
                   serviceVars, scoringVars,
                   advancedVars, consistencyVars>>

InitLimiter ==
    /\ clock = 0
    /\ limiterClass \in LimiterClasses
    /\ requests = <<>>
    /\ lockHolder = NoCaller
    /\ callerPc = [c \in Callers |-> "idle"]
    /\ callerNow = [c \in Callers |-> 0]
    /\ callerWake = [c \in Callers |-> 0]
    /\ admissions = <<>>

(***************************************************************************)
(* The model client: LegalAssistant._invoke_model and                      *)
(* AdvancedLLMTesting.get_model_response (called without a cache key)      *)
(***************************************************************************)
\* bound: the number of invocations made one after the other
MaxInvokes == 2
\* RETRY_CONFIG["max_retries"]
MaxRetries == 3
\* RETRY_CONFIG["base_delay"]
BaseDelay == 20

ClientClasses == {"LegalAssistant", "AdvancedLLMTesting"}
Letters == {"A", "B", "C", "D"}
ErrorSentinel == "ERROR"
\* the texts a well-formed 200 body may carry
RawTexts == {"A", " b\n", "d", "Je ne sais pas"}
\* what one requests.post can meet
AttemptOutcomes ==
    [kind : {"http_200"}, text : RawTexts]
    \cup [kind : {"http_429", "http_other", "http_200_malformed",
                  "request_exception"}, text : {""}]

\* str.strip().upper() on the texts of RawTexts
StripUpper(t) ==
    CASE t = "A" -> "A"
      [] t = " b\n" -> "B"
      [] t = "d" -> "D"
      [] t = "Je ne sais pas" -> "JE NE SAIS PAS"
      [] OTHER -> t

RECURSIVE Pow2(_)
\* 2 ** attempt
Pow2(n) == IF n <= 0 THEN 1 ELSE 2 * Pow2(n - 1)

\* a retry loop that sleeps base_delay before every retry
BackoffDelayFlat(attempt) == BaseDelay

\* RETRY_CONFIG["base_delay"] * (2 ** attempt)
BackoffDelay(attempt) == BaseDelay * Pow2(attempt)

\* the value returned on a 200 response with a well-formed body
ReturnedText(client, text) ==
    IF client = "LegalAssistant"
    THEN (IF StripUpper(text) \in Letters THEN StripUpper(text) ELSE ErrorSentinel)
    ELSE StripUpper(text)

\* "continue": the for loop goes to the next attempt, or ends and the
\* function returns "ERROR"
ContinueLoop(attempt, sleep) ==
    IF attempt + 1 < MaxRetries
    THEN [pc |-> "attempting", result |-> "", raised |-> "", sleep |-> sleep]
    ELSE [pc |-> "returned", result |-> ErrorSentinel, raised |-> "", sleep |-> sleep]

\* except requests.exceptions.RequestException
AfterRequestException(attempt) ==
    IF attempt < MaxRetries - 1
    THEN ContinueLoop(attempt, BackoffDelay(attempt))
    ELSE [pc |-> "returned", result |-> ErrorSentinel, raised |-> "", sleep |-> 0]

\* one pass of the body of "for attempt in range(max_retries)"
AttemptResult(client, attempt, outcome) ==
    CASE outcome.kind = "http_429" ->
            ContinueLoop(attempt, BackoffDelay(attempt))
      [] outcome.kind = "http_200" ->
            [pc |-> "returned", result |-> ReturnedText(client, outcome.text),
             raised |-> "", sleep |-> 0]
      [] outcome.kind = "http_200_malformed" ->
            [pc |-> "raised", result |-> "", raised |-> "KeyError", sleep |-> 0]
      [] outcome.kind = "http_other" ->
            [pc |-> "raised", result |-> "", raised |-> "ModelEvaluationError",
             sleep |-> 0]
      [] outcome.kind = "request_exception" ->
            AfterRequestException(attempt)

InitInvoke ==
    /\ invClient \in ClientClasses
    /\ invPc = "idle"
    /\ invAttempt = 0
    /\ invResult = ""
    /\ invRaised = ""
    /\ invAcquires = 0
    /\ invPosts = 0
    /\ invSleeps = <<>>
    /\ invOutcomes = <<>>
    /\ invCalls = 0

\* the call, up to the first requests.post: wait_if_needed, then the payload
InvokeStart ==
    /\ invPc \in {"idle", "returned", "raised"}
    /\ invCalls < MaxInvokes
    /\ invCalls' = invCalls + 1
    /\ invPc' = "attempting"
    /\ invAttempt' = 0
    /\ invResult' = ""
    /\ invRaised' = ""
    /\ invAcquires' = 1
    /\ invPosts' = 0
    /\ invSleeps' = <<>>
    /\ invOutcomes' = <<>>
    /\ UNCHANGED invClient
    /\ UNCHANGED <<limiterVars, runVars, generatorVars, cacheVars, mergeVars,
                   serviceVars, scoringVars,
                   advancedVars, consistencyVars>>

\* one requests.post and what the loop body does with its outcome
InvokeAttempt ==
    /\ invPc = "attempting"
    /\ \E outcome \in AttemptOutcomes :
          LET r == AttemptResult(invClient, invAttempt, outcome)
          IN /\ invPosts' = invPosts + 1
             /\ invOutcomes' = Append(invOutcomes, outcome.kind)
             /\ invSleeps' = IF r.sleep > 0 THEN Append(invSleeps, r.sleep)
                             ELSE invSleeps
             /\ invPc' = r.pc
             /\ invResult' = r.result
             /\ invRaised' = r.raised
             /\ invAttempt' = IF r.pc = "attempting" THEN invAttempt + 1
                              ELSE invAttempt
    /\ UNCHANGED <<invClient, invAcquires, invCalls>>
    /\ UNCHANGED <<limiterVars, runVars, generatorVars, cacheVars, mergeVars,
                   serviceVars, scoringVars,
                   advancedVars, consistencyVars>>

NextInvoke == InvokeStart \/ InvokeAttempt

(***************************************************************************)
(* Percentages.  The code computes them as float quotients; here they are  *)
(* exact fractions in lowest terms, so that equal values are equal records *)
(***************************************************************************)
RECURSIVE GCD(_, _)
GCD(a, b) == IF b = 0 THEN a ELSE GCD(b, a % b)

\* n / d, for n >= 0 and d > 0
Frac(n, d) == [n |-> n \div GCD(n, d), d |-> d \div GCD(n, d)]

\* a whole number as a float: 0, 99.0, 100.0
Whole(x) == [n |-> x, d |-> 1]

\* (k / n) * 100
Percent(k, n) == Frac(k * 100, n)

FracLeq(a, b) == a.n * b.d <= b.n * a.d

\* min(a, b)
FracMin(a, b) == IF FracLeq(a, b) THEN a ELSE b

(***************************************************************************)
(* The question generator, as the orchestrator sees it                     *)
(***************************************************************************)
\* bound: the largest number of QCM of one run
MaxQcm == 6
\* bound: the number of QCM handed to the evaluation phase studied alone
MaxEvalQcm == 2

\* batch_size of _evaluate_model_with_updates
BatchSize == 5
\* num_generic = 5 if test_mode else 30
TestGenericCount == 5
FullGenericCount == 30
\* the generic counts of _estimate_qcm_count
EstimateTestGeneric == 5
EstimateFullGeneric == 30
\* the cap of the stored progress before completion, and the final progress
ProgressCap == 99
ProgressDone == 100
\* 'points' of the substitute QCM of generate_single_generic_qcm and
\* generate_specific_qcm
FakePoints == 5
\* "points": 5 of the prompt templates, which the generating model follows
TemplatePoints == 5

\* self.criteria of QCMGenerator: the numbers of types and difficulty levels
CriteriaCatalogue ==
    [Bias |-> [types |-> 5, difficulty_levels |-> 3],
     Integrity |-> [types |-> 3, difficulty_levels |-> 3],
     Relevance |-> [types |-> 3, difficulty_levels |-> 3],
     Legal_Compliance |-> [types |-> 3, difficulty_levels |-> 3],
     Coherence |-> [types |-> 3, difficulty_levels |-> 3]]

\* the criterion names a caller selects from: one of the catalogue, one not
SelectableNames == {"Bias", "Unknown"}

\* the QCM one listed criterion of the catalogue gives: types[:1] and
\* difficulty_levels[:1] in test mode, all of them otherwise
QcmPerCriterion(criterion, tm) ==
    IF tm THEN 1
    ELSE CriteriaCatalogue[criterion].types
           * CriteriaCatalogue[criterion].difficulty_levels

RECURSIVE CountListed(_, _)
\* the loop "for criterion in selected_criteria: if criterion in criteria"
CountListed(sel, tm) ==
    IF sel = <<>> THEN 0
    ELSE (IF Head(sel) \in DOMAIN CriteriaCatalogue
          THEN QcmPerCriterion(Head(sel), tm) ELSE 0)
         + CountListed(Tail(sel), tm)

\* an estimate that misses one of the listed QCM
EstimateQcmCountShort(sel, tm) ==
    IF sel = <<>>
    THEN (IF tm THEN EstimateTestGeneric ELSE EstimateFullGeneric)
    ELSE Max(CountListed(sel, tm) - 1, 1)

\* _estimate_qcm_count
EstimateQcmCount(sel, tm) ==
    IF sel = <<>>
    THEN (IF tm THEN EstimateTestGeneric ELSE EstimateFullGeneric)
    ELSE Max(CountListed(sel, tm), 1)

RECURSIVE GenerationPlan(_, _)
\* the criteria of the calls of the generator, in the order of the loops of
\* _generate_qcm_with_updates
GenerationPlan(sel, tm) ==
    IF sel = <<>> THEN <<>>
    ELSE (IF Head(sel) \in DOMAIN CriteriaCatalogue
          THEN [i \in 1..QcmPerCriterion(Head(sel), tm) |-> Head(sel)]
          ELSE <<>>)
         \o GenerationPlan(Tail(sel), tm)

\* the loops of _generate_qcm_with_updates: generic when nothing is selected
GenerationQueue(sel, tm) ==
    IF sel = <<>>
    THEN [i \in 1..(IF tm THEN TestGenericCount ELSE FullGenericCount) |-> "Generic"]
    ELSE GenerationPlan(sel, tm)

\* the questions of the QCM the generating model writes, by rank in the run
ParsedQuestions == <<"q1", "q2", "q3", "q4", "q5", "q6", "q7", "q8">>

\* and their correct answers
ParsedAnswers == <<"A", "B", "A", "B", "A", "B", "A", "B">>

\* the question of the substitute QCM: one text per criterion
FakeQuestion(criterion) ==
    CASE criterion = "Generic" -> "Echec de generation d'un QCM generique"
      [] criterion = "Bias" -> "Echec de generation d'un QCM pour Bias"
      [] OTHER -> "Echec de generation d'un QCM pour un autre critere"

\* what generate_single_generic_qcm / generate_specific_qcm return for the
\* rank-th QCM: a validated QCM of the model, or the substitute after the
\* last failed attempt
GeneratorResults(criterion, rank) ==
    { [question |-> ParsedQuestions[rank], criterion |-> criterion,
       points |-> TemplatePoints, correct_answer |-> ParsedAnswers[rank],
       is_fake |-> FALSE],
      [question |-> FakeQuestion(criterion), criterion |-> criterion,
       points |-> FakePoints, correct_answer |-> "A", is_fake |-> TRUE] }

(***************************************************************************)
(* Scoring one QCM, merging a batch, final metrics (service.py)            *)
(***************************************************************************)
\* the exception that leaves ask_question (see AttemptResult)
ModelRaised == "raised"
\* what asking the model for one QCM gives: a letter, the sentinel, or an
\* exception
AskOutcomes == {"A", ErrorSentinel, ModelRaised}

\* request_queue.response_cache is a dict; "if cached_response:" reads a missing key
\* and an empty string alike
EmptyCache == [q \in {} |-> ""]

GetFromCache(c, question) == IF question \in DOMAIN c THEN c[question] ELSE ""

AddToCache(c, question, response) ==
    [q \in DOMAIN c \cup {question} |-> IF q = question THEN response ELSE c[q]]

\* the dictionary _evaluate_single_qcm returns for a response
EvaluateSingleQcm(qcm, response) ==
    IF response # ErrorSentinel
    THEN [criterion |-> qcm.criterion, question |-> qcm.question,
          model_answer |-> response, correct_answer |-> qcm.correct_answer,
          score |-> IF response = qcm.correct_answer THEN qcm.points ELSE 0,
          max_points |-> qcm.points, status |-> "success"]
    ELSE [criterion |-> qcm.criterion, question |-> qcm.question,
          model_answer |-> ErrorSentinel, correct_answer |-> qcm.correct_answer,
          score |-> 0, max_points |-> qcm.points, status |-> "error"]

EmptyBatchResults == [details |-> <<>>, error_count |-> 0]

\* the body of "for qcm in batch" when _evaluate_single_qcm returned
\* advanced_result = {}: no advanced test was run for the QCM
NoAdvanced == <<>>

\* {**standard_result, 'advanced': advanced_result}
WithAdvanced(detail, advanced) ==
    [f \in DOMAIN detail \cup {"advanced"} |->
        IF f = "advanced" THEN advanced ELSE detail[f]]

BatchAfterResult(br, detail, advanced) ==
    IF detail.status = "success"
    THEN [br EXCEPT !.details = Append(@, WithAdvanced(detail, advanced))]
    ELSE [br EXCEPT !.error_count = @ + 1, !.details = Append(@, detail)]

\* the except branch without its count
BatchAfterExceptionUncounted(br) == br

\* the except branch of "for qcm in batch"
BatchAfterException(br) == [br EXCEPT !.error_count = @ + 1]

EmptyStats == [score |-> 0, total |-> 0, questions_count |-> 0,
               success_count |-> 0, advanced_metrics |-> NoAdvanced]

\* d.update(other)
DictUpdate(d, other) ==
    [k \in DOMAIN d \cup DOMAIN other |->
        IF k \in DOMAIN other THEN other[k] ELSE d[k]]

\* 'advanced' in detail and detail['advanced']
HasAdvanced(detail) ==
    "advanced" \in DOMAIN detail /\ detail.advanced # NoAdvanced

EmptyResults ==
    [total_score |-> Whole(0), criteria_scores |-> [c \in {} |-> EmptyStats],
     details |-> <<>>, success_rate |-> Whole(0), error_count |-> 0]

\* one pass of "for detail in batch_results['details']"
MergeDetail(cs, detail) ==
    LET old == IF detail.criterion \in DOMAIN cs THEN cs[detail.criterion]
               ELSE EmptyStats
        new == [score |-> old.score
                          + (IF detail.status = "success" THEN detail.score ELSE 0),
                total |-> old.total + detail.max_points,
                questions_count |-> old.questions_count + 1,
                success_count |-> old.success_count
                          + (IF detail.status = "success" THEN 1 ELSE 0),
                advanced_metrics |->
                    IF HasAdvanced(detail)
                    THEN DictUpdate(old.advanced_metrics, detail.advanced)
                    ELSE old.advanced_metrics]
    IN [c \in DOMAIN cs \cup {detail.criterion} |->
           IF c = detail.criterion THEN new ELSE cs[c]]

RECURSIVE MergeDetails(_, _)
MergeDetails(cs, details) ==
    IF details = <<>> THEN cs
    ELSE MergeDetails(MergeDetail(cs, Head(details)), Tail(details))

\* _merge_evaluation_results
MergeEvaluationResults(res, br) ==
    [res EXCEPT !.details = @ \o br.details,
                !.error_count = @ + br.error_count,
                !.criteria_scores = MergeDetails(@, br.details)]

RECURSIVE SumScore(_, _)
\* total_score += criterion_stats['score'] over the criteria of set S
SumScore(cs, S) ==
    IF S = {} THEN 0
    ELSE LET c == CHOOSE x \in S : TRUE
         IN cs[c].score + SumScore(cs, S \ {c})

RECURSIVE SumTotal(_, _)
\* total_possible += criterion_stats['total'] over the criteria of set S
SumTotal(cs, S) ==
    IF S = {} THEN 0
    ELSE LET c == CHOOSE x \in S : TRUE
         IN cs[c].total + SumTotal(cs, S \ {c})

\* results['success_rate'] of _calculate_final_metrics
SuccessRate(error_count, n) ==
    IF n > 0 THEN Percent(n - error_count, n) ELSE Whole(0)

\* the quotient without its factor 100
TotalScoreUnscaled(cs) ==
    IF SumTotal(cs, DOMAIN cs) > 0
    THEN Frac(SumScore(cs, DOMAIN cs), SumTotal(cs, DOMAIN cs))
    ELSE Whole(0)

\* results['total_score'] of _calculate_final_metrics
TotalScore(cs) ==
    IF SumTotal(cs, DOMAIN cs) > 0
    THEN Percent(SumScore(cs, DOMAIN cs), SumTotal(cs, DOMAIN cs))
    ELSE Whole(0)

\* _calculate_final_metrics
CalculateFinalMetrics(res, n) ==
    [res EXCEPT !.success_rate = SuccessRate(res.error_count, n),
                !.total_score = TotalScore(res.criteria_scores)]

\* a split that leaves out the last, shorter batch
NumBatchesWhole(list) == Len(list) \div BatchSize

\* batches = [qcm_list[i:i + batch_size] for i in range(0, len, batch_size)]
NumBatches(list) == (Len(list) + BatchSize - 1) \div BatchSize

\* slices that start one place early: each batch after the first takes the
\* last QCM of the batch before it again
BatchOverlapping(list, idx) ==
    SubSeq(list, Max(1, idx * BatchSize), Min(Len(list), (idx + 1) * BatchSize))

\* the batch of index idx (from 0)
Batch(list, idx) ==
    SubSeq(list, idx * BatchSize + 1, Min(Len(list), (idx + 1) * BatchSize))

(***************************************************************************)
(* run_evaluation_task (service.py), one action per stretch between two    *)
(* awaits that can fail or be observed.  advanced_criteria is None.        *)
(***************************************************************************)
\* a message given to manager.broadcast; progress and batch are read only
\* in the messages that carry them
Event(type, st, prog, batch) ==
    [type |-> type, status |-> st, progress |-> prog, batch |-> batch]

\* _update_evaluation_status: the two messages built from the stored record
StatusMessages(st, prog) ==
    <<Event("evaluation_status", st, prog, 0),
      Event("progress_update", st, prog, 0)>>

Selections ==
    UNION {[1..n -> SelectableNames] : n \in 0..MaxQcm}

\* the record made by start_evaluation and the task before its first step
InitRun ==
    /\ status = "pending"
    /\ progress = Whole(0)
    /\ total_qcm = 0
    /\ completed_qcm = 0
    /\ qcm_list = <<>>
    /\ endTimeStamps = 0
    /\ storedResults = FALSE
    /\ recError = ""
    /\ selected_criteria \in Selections
    /\ test_mode \in BOOLEAN
    /\ EstimateQcmCount(selected_criteria, test_mode) <= MaxQcm
    /\ Len(GenerationQueue(selected_criteria, test_mode)) <= MaxQcm
    /\ pc = "start"
    /\ genQueue = <<>>
    /\ qcm_counter = 0
    /\ results = EmptyResults
    /\ batch_idx = 0
    /\ batch_pos = 0
    /\ batch_results = EmptyBatchResults
    /\ cache = EmptyCache
    /\ events = <<>>
    /\ outcomes = <<>>

\* the except block of run_evaluation_task up to its await: an exception of
\* message msg reached it
HandleError(msg) ==
    /\ status' = "failed"
    /\ recError' = msg
    /\ endTimeStamps' = endTimeStamps + 1
    /\ pc' = "handler_save"

\* a step of the try block raises: nothing else of the state moves
Raise(msg) ==
    /\ HandleError(msg)
    /\ UNCHANGED <<progress, total_qcm, completed_qcm, qcm_list, storedResults,
                   selected_criteria, test_mode, genQueue, qcm_counter, results,
                   batch_idx, batch_pos, batch_results, cache, events, outcomes>>

\* status = "running" and the first _update_evaluation_status
RunStart ==
    /\ pc = "start"
    /\ status' = "running"
    /\ events' = events \o StatusMessages("running", progress)
    /\ pc' = "documents"
    /\ UNCHANGED <<progress, total_qcm, completed_qcm, qcm_list, endTimeStamps,
                   storedResults, recError, selected_criteria, test_mode,
                   genQueue, qcm_counter, results, batch_idx, batch_pos,
                   batch_results, cache, outcomes>>
    /\ UNCHANGED <<limiterVars, invokeVars, generatorVars, cacheVars, mergeVars,
                   serviceVars, scoringVars,
                   advancedVars, consistencyVars>>

\* process_documents, generate_and_store_embeddings and chunks[0]: they
\* return with a first chunk, or one of them raises
PrepareDocuments ==
    /\ pc = "documents"
    /\ \E outcome \in {"chunks", "DocumentProcessingError", "IndexError"} :
          IF outcome = "chunks"
          THEN /\ pc' = "generation_start"
               /\ UNCHANGED <<recordVars, selected_criteria, test_mode, genQueue,
                              qcm_counter, results, batch_idx, batch_pos,
                              batch_results, cache, events, outcomes>>
          ELSE Raise(outcome)
    /\ UNCHANGED <<limiterVars, invokeVars, generatorVars, cacheVars, mergeVars,
                   serviceVars, scoringVars,
                   advancedVars, consistencyVars>>

\* _generate_qcm_with_updates up to its loops
GenerationStart ==
    /\ pc = "generation_start"
    /\ total_qcm' = EstimateQcmCount(selected_criteria, test_mode)
    /\ events' = Append(events, Event("qcm_generation_started", "", Whole(0), 0))
    /\ genQueue' = GenerationQueue(selected_criteria, test_mode)
    /\ qcm_counter' = 0
    /\ pc' = "generating"
    /\ UNCHANGED <<status, progress, completed_qcm, qcm_list, endTimeStamps,
                   storedResults, recError, selected_criteria, test_mode,
                   results, batch_idx, batch_pos, batch_results, cache, outcomes>>
    /\ UNCHANGED <<limiterVars, invokeVars, generatorVars, cacheVars, mergeVars,
                   serviceVars, scoringVars,
                   advancedVars, consistencyVars>>

\* one call of the generator followed by process_qcm
GenerateOne ==
    /\ pc = "generating"
    /\ genQueue # <<>>
    /\ \E qcm \in GeneratorResults(Head(genQueue), qcm_counter + 1) :
          LET prog == Percent(qcm_counter + 1, total_qcm)
              stored == FracMin(prog, Whole(ProgressCap))
          IN /\ qcm_list' = Append(qcm_list, qcm)
             /\ completed_qcm' = completed_qcm + 1
             /\ qcm_counter' = qcm_counter + 1
             /\ progress' = stored
             /\ events' = Append(events, Event("qcm_generated", "", prog, 0))
                            \o StatusMessages(status, stored)
    /\ genQueue' = Tail(genQueue)
    /\ UNCHANGED <<status, total_qcm, endTimeStamps, storedResults, recError,
                   selected_criteria, test_mode, pc, results, batch_idx,
                   batch_pos, batch_results, cache, outcomes>>
    /\ UNCHANGED <<limiterVars, invokeVars, generatorVars, cacheVars, mergeVars,
                   serviceVars, scoringVars,
                   advancedVars, consistencyVars>>

\* the loops are over: _save_evaluation_metadata, then the phase_change
\* message of run_evaluation_task
GenerationEnd ==
    /\ pc = "generating"
    /\ genQueue = <<>>
    /\ \E saved \in BOOLEAN :
          IF saved
          THEN /\ events' = Append(events, Event("phase_change", "", Whole(0), 0))
               /\ pc' = "evaluation_start"
               /\ UNCHANGED <<recordVars, selected_criteria, test_mode, genQueue,
                              qcm_counter, results, batch_idx, batch_pos,
                              batch_results, cache, outcomes>>
          ELSE Raise("OSError")
    /\ UNCHANGED <<limiterVars, invokeVars, generatorVars, cacheVars, mergeVars,
                   serviceVars, scoringVars,
                   advancedVars, consistencyVars>>

\* _evaluate_model_with_updates up to its loop over the batches
EvaluationStart ==
    /\ pc = "evaluation_start"
    /\ results' = EmptyResults
    /\ events' = Append(events, Event("evaluation_started", "", Whole(0), 0))
    /\ batch_idx' = 0
    /\ pc' = IF NumBatches(qcm_list) = 0 THEN "final_metrics" ELSE "batch_begin"
    /\ UNCHANGED <<recordVars, selected_criteria, test_mode, genQueue,
                   qcm_counter, batch_pos, batch_results, cache, outcomes>>
    /\ UNCHANGED <<limiterVars, invokeVars, generatorVars, cacheVars, mergeVars,
                   serviceVars, scoringVars,
                   advancedVars, consistencyVars>>

\* the head of the loop body: the stored progress, _update_evaluation_status,
\* the fresh batch_results of _process_evaluation_batch
BatchBegin ==
    /\ pc = "batch_begin"
    /\ LET stored == FracMin(Percent(batch_idx, NumBatches(qcm_list)),
                             Whole(ProgressCap))
       IN /\ progress' = stored
          /\ events' = events \o StatusMessages(status, stored)
    /\ batch_results' = EmptyBatchResults
    /\ batch_pos' = 1
    /\ pc' = "scoring"
    /\ UNCHANGED <<status, total_qcm, completed_qcm, qcm_list, endTimeStamps,
                   storedResults, recError, selected_criteria, test_mode,
                   genQueue, qcm_counter, results, batch_idx, cache, outcomes>>
    /\ UNCHANGED <<limiterVars, invokeVars, generatorVars, cacheVars, mergeVars,
                   serviceVars, scoringVars,
                   advancedVars, consistencyVars>>

\* one pass of "for qcm in batch": _evaluate_single_qcm with the cache, the
\* model asked only on a miss, and the branch taken on its result; the run
\* is started without advanced_criteria, so advanced_result stays {}
ScoreQcm ==
    /\ pc = "scoring"
    /\ batch_pos <= Len(Batch(qcm_list, batch_idx))
    /\ LET qcm == Batch(qcm_list, batch_idx)[batch_pos]
           cached == GetFromCache(cache, qcm.question)
       IN IF cached # ""
          THEN /\ batch_results' =
                      BatchAfterResult(batch_results, EvaluateSingleQcm(qcm, cached),
                                       NoAdvanced)
               /\ outcomes' = Append(outcomes, cached)
               /\ UNCHANGED cache
          ELSE \E asked \in AskOutcomes :
                  /\ outcomes' = Append(outcomes, asked)
                  /\ IF asked = ModelRaised
                     THEN /\ batch_results' = BatchAfterException(batch_results)
                          /\ UNCHANGED cache
                     ELSE /\ cache' = AddToCache(cache, qcm.question, asked)
                          /\ batch_results' =
                               BatchAfterResult(batch_results,
                                                EvaluateSingleQcm(qcm, asked),
                                                NoAdvanced)
    /\ batch_pos' = batch_pos + 1
    /\ UNCHANGED <<recordVars, selected_criteria, test_mode, pc, genQueue,
                   qcm_counter, results, batch_idx, events>>
    /\ UNCHANGED <<limiterVars, invokeVars, generatorVars, cacheVars, mergeVars,
                   serviceVars, scoringVars,
                   advancedVars, consistencyVars>>

\* the batch is through: _merge_evaluation_results and the
\* evaluation_batch_completed message
BatchEnd ==
    /\ pc = "scoring"
    /\ batch_pos > Len(Batch(qcm_list, batch_idx))
    /\ results' = MergeEvaluationResults(results, batch_results)
    /\ events' = Append(events,
                        Event("evaluation_batch_completed", "",
                              Percent(batch_idx, NumBatches(qcm_list)),
                              batch_idx + 1))
    /\ batch_idx' = batch_idx + 1
    /\ pc' = IF batch_idx + 1 < NumBatches(qcm_list) THEN "batch_begin"
             ELSE "final_metrics"
    /\ UNCHANGED <<recordVars, selected_criteria, test_mode, genQueue,
                   qcm_counter, batch_pos, batch_results, cache, outcomes>>
    /\ UNCHANGED <<limiterVars, invokeVars, generatorVars, cacheVars, mergeVars,
                   serviceVars, scoringVars,
                   advancedVars, consistencyVars>>

\* _calculate_final_metrics(results, len(qcm_list)) and the return
FinalMetrics ==
    /\ pc = "final_metrics"
    /\ results' = CalculateFinalMetrics(results, Len(qcm_list))
    /\ pc' = "reports"
    /\ UNCHANGED <<recordVars, selected_criteria, test_mode, genQueue,
                   qcm_counter, batch_idx, batch_pos, batch_results, cache,
                   events, outcomes>>
    /\ UNCHANGED <<limiterVars, invokeVars, generatorVars, cacheVars, mergeVars,
                   serviceVars, scoringVars,
                   advancedVars, consistencyVars>>

\* a finalisation that leaves the progress at its capped value
FinalizeKeepsProgress ==
    /\ pc = "reports"
    /\ \E reported \in BOOLEAN :
          IF reported
          THEN /\ status' = "completed"
               /\ endTimeStamps' = endTimeStamps + 1
               /\ UNCHANGED progress
               /\ storedResults' = TRUE
               /\ pc' = "final_save"
               /\ UNCHANGED <<total_qcm, completed_qcm, qcm_list, recError,
                              selected_criteria, test_mode, genQueue,
                              qcm_counter, results, batch_idx, batch_pos,
                              batch_results, cache, events, outcomes>>
          ELSE Raise("ValueError")
    /\ UNCHANGED <<limiterVars, invokeVars, generatorVars, cacheVars, mergeVars,
                   serviceVars, scoringVars,
                   advancedVars, consistencyVars>>

\* generate_reports, then the five assignments that finalise the record
Finalize ==
    /\ pc = "reports"
    /\ \E reported \in BOOLEAN :
          IF reported
          THEN /\ status' = "completed"
               /\ endTimeStamps' = endTimeStamps + 1
               /\ progress' = Whole(ProgressDone)
               /\ storedResults' = TRUE
               /\ pc' = "final_save"
               /\ UNCHANGED <<total_qcm, completed_qcm, qcm_list, recError,
                              selected_criteria, test_mode, genQueue,
                              qcm_counter, results, batch_idx, batch_pos,
                              batch_results, cache, events, outcomes>>
          ELSE Raise("ValueError")
    /\ UNCHANGED <<limiterVars, invokeVars, generatorVars, cacheVars, mergeVars,
                   serviceVars, scoringVars,
                   advancedVars, consistencyVars>>

\* the last _save_evaluation_metadata of the try block, then the
\* evaluation_completed message
FinalSave ==
    /\ pc = "final_save"
    /\ \E saved \in BOOLEAN :
          IF saved
          THEN /\ events' = Append(events,
                                   Event("evaluation_completed", "", Whole(0), 0))
               /\ pc' = "done"
               /\ UNCHANGED <<recordVars, selected_criteria, test_mode, genQueue,
                              qcm_counter, results, batch_idx, batch_pos,
                              batch_results, cache, outcomes>>
          ELSE Raise("OSError")
    /\ UNCHANGED <<limiterVars, invokeVars, generatorVars, cacheVars, mergeVars,
                   serviceVars, scoringVars,
                   advancedVars, consistencyVars>>

\* the rest of the except block: _save_evaluation_metadata, then the
\* evaluation_error message; a failing save leaves the task with its exception
HandlerSave ==
    /\ pc = "handler_save"
    /\ \E saved \in BOOLEAN :
          /\ events' = IF saved
                       THEN Append(events,
                                   Event("evaluation_error", "", Whole(0), 0))
                       ELSE events
          /\ pc' = IF saved THEN "done" ELSE "escaped"
    /\ UNCHANGED <<recordVars, selected_criteria, test_mode, genQueue,
                   qcm_counter, results, batch_idx, batch_pos, batch_results,
                   cache, outcomes>>
    /\ UNCHANGED <<limiterVars, invokeVars, generatorVars, cacheVars, mergeVars,
                   serviceVars, scoringVars,
                   advancedVars, consistencyVars>>

(***************************************************************************)
(* Publishing: manager.broadcast inside the try/except of the service      *)
(***************************************************************************)
\* bound: the publishes that fail in one run
MaxUndelivered == 2

SinkModes == {"up", "flaky"}

\* what a call of manager.broadcast meets: every send goes through, a
\* subscriber is disconnected (send_json raises inside broadcast), or the
\* call itself raises
Deliveries ==
    IF sinkMode = "up" \/ undelivered >= MaxUndelivered THEN {"sent"}
    ELSE {"sent", "subscriber_disconnected", "sink_raised"}

\* a broadcast with no try around it in the service
TryBroadcastUnguarded(d) ==
    IF d = "sent" THEN "sent"
    ELSE IF d = "subscriber_disconnected" THEN "swallowed"
    ELSE "raise"

\* try: await manager.broadcast(...) / except Exception: logger.warning(...);
\* ConnectionManager.broadcast itself catches what send_json raises
TryBroadcast(d) ==
    IF d = "sent" THEN "sent" ELSE "swallowed"

InitPublish ==
    /\ sinkMode \in SinkModes
    /\ undelivered = 0

\* a step A of the task while every send of every broadcast goes through
Delivered(A) == A /\ UNCHANGED publishVars

\* a step A of the task together with the fate of what it publishes: A
\* publishes when it adds to events; an exception leaving the broadcast would
\* reach the except block of run_evaluation_task in place of the rest of A
Published(A) ==
    \E d \in Deliveries :
        IF TryBroadcast(d) = "raise"
        THEN /\ ENABLED (A /\ events' # events)
             /\ Raise("PublishError")
             /\ undelivered' = undelivered + 1
             /\ UNCHANGED sinkMode
             /\ UNCHANGED <<limiterVars, invokeVars, generatorVars, cacheVars,
                            mergeVars,
                   serviceVars, scoringVars,
                   advancedVars, consistencyVars>>
        ELSE /\ A
             /\ IF events' # events
                THEN undelivered' = IF TryBroadcast(d) = "sent" THEN undelivered
                                    ELSE undelivered + 1
                ELSE d = "sent" /\ UNCHANGED undelivered
             /\ UNCHANGED sinkMode

(***************************************************************************)
(* QCMGenerator: the four generating methods and their retry loops         *)
(***************************************************************************)
\* bound: the QCM a list-returning method is asked for
MaxGenItems == 2

GeneratorMethods ==
    {"generate_single_generic_qcm", "generate_specific_qcm",
     "generate_generic_qcm", "generate_criteria_qcm"}

ListMethods == {"generate_generic_qcm", "generate_criteria_qcm"}

\* required_keys
RequiredKeys == {"question", "choices", "correct_answer", "points", "explanation"}

\* a JSON object of the model as the validation reads it: the keys present,
\* whether choices is a dict, the labels of choices, correct_answer, points
WellFormedRecord ==
    [keys |-> RequiredKeys, choices_is_dict |-> TRUE, labels |-> Letters,
     correct_answer |-> "A", points |-> TemplatePoints]

ModelRecords ==
    {WellFormedRecord, [WellFormedRecord EXCEPT !.correct_answer = "D"]}
    \cup {[WellFormedRecord EXCEPT !.keys = RequiredKeys \ {k}] : k \in RequiredKeys}
    \cup {[WellFormedRecord EXCEPT !.choices_is_dict = FALSE, !.labels = {}]}
    \cup {[WellFormedRecord EXCEPT !.labels = ls] :
              ls \in {Letters \ {"D"}, Letters \cup {"E"}}}
    \cup {[WellFormedRecord EXCEPT !.correct_answer = "E"]}
    \cup {[WellFormedRecord EXCEPT !.points = p] : p \in {0, -1}}

\* what one attempt meets: invoke_model raises, _clean_response or json.loads
\* raises, or a JSON object comes back
NoRecord == [keys |-> {}, choices_is_dict |-> FALSE, labels |-> {},
             correct_answer |-> "", points |-> 0]

GenOutcomes ==
    {[kind |-> "call_failed", rec |-> NoRecord],
     [kind |-> "unparsable", rec |-> NoRecord]}
    \cup {[kind |-> "record", rec |-> r] : r \in ModelRecords}

\* _validate_qcm_structure, and the same four checks written inline in
\* generate_generic_qcm: TRUE when no ValueError is raised
ValidateLabelsOnly(rec) ==
    /\ RequiredKeys \subseteq rec.keys
    /\ rec.choices_is_dict
    /\ Letters \subseteq rec.labels

ValidateQcmStructure(rec) ==
    /\ RequiredKeys \subseteq rec.keys
    /\ rec.choices_is_dict
    /\ Letters \subseteq rec.labels
    /\ rec.correct_answer \in Letters

GenCriterion(method) ==
    IF method \in {"generate_single_generic_qcm", "generate_generic_qcm"}
    THEN "Generic" ELSE "Bias"

\* the record appended or returned after a successful attempt: the model's
\* object with the metadata added
AcceptedQcm(method, rec) ==
    [source |-> "model", keys |-> rec.keys, labels |-> rec.labels,
     correct_answer |-> rec.correct_answer, points |-> rec.points,
     criterion |-> GenCriterion(method), is_fake |-> FALSE, error |-> FALSE]

\* the record built in the except branch of the last attempt
FallbackRaises(method) ==
    [source |-> "raise", keys |-> {}, labels |-> {}, correct_answer |-> "",
     points |-> 0, criterion |-> GenCriterion(method),
     is_fake |-> FALSE, error |-> FALSE]

FallbackQcm(method) ==
    IF method = "generate_criteria_qcm"
    THEN [source |-> "fallback", keys |-> RequiredKeys, labels |-> Letters,
          correct_answer |-> "A", points |-> 0,
          criterion |-> GenCriterion(method),
          is_fake |-> FALSE, error |-> TRUE]
    ELSE [source |-> "fallback", keys |-> RequiredKeys, labels |-> Letters,
          correct_answer |-> "A", points |-> FakePoints,
          criterion |-> GenCriterion(method),
          is_fake |-> TRUE, error |-> FALSE]

\* the try block: TRUE when the attempt reaches the append or the return
AttemptSucceeds(outcome) ==
    outcome.kind = "record" /\ ValidateQcmStructure(outcome.rec)

NoAttempt ==
    [outcome |-> [kind |-> "none", rec |-> NoRecord], attempt |-> 0,
     effect |-> "none", calls |-> 0]

InitGenerator ==
    /\ gnMethod \in GeneratorMethods
    /\ gnItems \in IF gnMethod \in ListMethods THEN 0..MaxGenItems ELSE {1}
    /\ gnAttempt = 0
    /\ gnCalls = 0
    /\ gnOutput = <<>>
    /\ gnPc = "running"
    /\ gnLast = NoAttempt

\* one pass of `for attempt in range(max_retries)` for the current QCM
GeneratorAttempt ==
    /\ gnPc = "running"
    /\ gnItems > 0
    /\ \E outcome \in GenOutcomes :
         LET calls == gnCalls + 1
             last == gnAttempt >= MaxRetries - 1
             effect == IF AttemptSucceeds(outcome) THEN "accepted"
                       ELSE IF last THEN "fallback" ELSE "retry"
             produced == IF effect = "accepted"
                         THEN AcceptedQcm(gnMethod, outcome.rec)
                         ELSE FallbackQcm(gnMethod)
         IN  /\ gnLast' = [outcome |-> outcome, attempt |-> gnAttempt,
                           effect |-> effect, calls |-> calls]
             /\ IF effect = "retry"
                THEN /\ gnAttempt' = gnAttempt + 1
                     /\ gnCalls' = calls
                     /\ UNCHANGED <<gnItems, gnOutput, gnPc>>
                ELSE IF produced.source = "raise"
                THEN /\ gnPc' = "raised"
                     /\ gnCalls' = calls
                     /\ UNCHANGED <<gnItems, gnOutput, gnAttempt>>
                ELSE /\ gnOutput' = Append(gnOutput, produced)
                     /\ gnItems' = gnItems - 1
                     /\ gnAttempt' = 0
                     /\ gnCalls' = 0
                     /\ UNCHANGED gnPc
    /\ UNCHANGED gnMethod
    /\ UNCHANGED <<limiterVars, invokeVars, runVars, cacheVars, mergeVars,
                   serviceVars, scoringVars,
                   advancedVars, consistencyVars>>

\* the loops are exhausted: `return qcm_list`, or the return of the one QCM
GeneratorReturn ==
    /\ gnPc = "running"
    /\ gnItems = 0
    /\ gnPc' = "returned"
    /\ UNCHANGED <<gnMethod, gnItems, gnAttempt, gnCalls, gnOutput, gnLast>>
    /\ UNCHANGED <<limiterVars, invokeVars, runVars, cacheVars, mergeVars,
                   serviceVars, scoringVars,
                   advancedVars, consistencyVars>>

NextGenerator == GeneratorAttempt \/ GeneratorReturn

(***************************************************************************)
(* The response caches: RequestCache (advanced testing) and the            *)
(* response_cache of RequestQueue (evaluator)                              *)
(***************************************************************************)
\* bound: RequestCache.max_size (1000 by default), at least 1
CacheMaxSize == 2
\* bound: the max_size given to RequestQueue (100 by default)
QueueMaxSize == 2
\* bound: the cache operations made one after the other
MaxCacheOps == 4

CacheClasses == {"RequestCache", "RequestQueue"}
CacheKeys == {"k1", "k2", "k3", "k4"}
CacheValues == {"v1", "v2"}
\* Python's None
None == "None"

\* del d[key]
DictDel(d, key) == [k \in DOMAIN d \ {key} |-> d[k]]

\* d[key] = value
DictSet(d, key, value) ==
    [k \in DOMAIN d \cup {key} |-> IF k = key THEN value ELSE d[k]]

\* access_times is a dict, kept here in its insertion order as a sequence of
\* [key, time]; assigning to a key that is present keeps its place
AccessKeys(acc) == {acc[i].key : i \in DOMAIN acc}

AccessTime(acc, key) ==
    LET i == CHOOSE j \in DOMAIN acc : acc[j].key = key IN acc[i].time

AccessSet(acc, key, t) ==
    IF key \in AccessKeys(acc)
    THEN [i \in DOMAIN acc |->
             IF acc[i].key = key THEN [key |-> key, time |-> t] ELSE acc[i]]
    ELSE Append(acc, [key |-> key, time |-> t])

AccessDel(acc, key) == SelectSeq(acc, LAMBDA e : e.key # key)

\* min(self.access_times.items(), key=lambda x: x[1])[0]: the first entry,
\* in insertion order, whose time is the least
OldestKey(acc) ==
    LET i == CHOOSE j \in DOMAIN acc :
                 \A m \in DOMAIN acc :
                     /\ acc[j].time <= acc[m].time
                     /\ (acc[m].time = acc[j].time) => (j <= m)
    IN  acc[i].key

\* RequestCache.get at the instant t
RequestCacheGetNoRefresh(c, acc, key, t) ==
    IF key \in DOMAIN c
    THEN [cache |-> c, access |-> acc, result |-> c[key]]
    ELSE [cache |-> c, access |-> acc, result |-> None]

RequestCacheGet(c, acc, key, t) ==
    IF key \in DOMAIN c
    THEN [cache |-> c, access |-> AccessSet(acc, key, t), result |-> c[key]]
    ELSE [cache |-> c, access |-> acc, result |-> None]

\* RequestCache.set at the instant t
RequestCacheSet(c, acc, key, value, t) ==
    LET full == Cardinality(DOMAIN c) >= CacheMaxSize
        c1 == IF full THEN DictDel(c, OldestKey(acc)) ELSE c
        acc1 == IF full THEN AccessDel(acc, OldestKey(acc)) ELSE acc
    IN  [cache |-> DictSet(c1, key, value),
         access |-> AccessSet(acc1, key, t),
         result |-> None]

\* RequestQueue.get_from_cache: response_cache.get(cache_key)
QueueGetFromCacheEmpty(c, acc, key, t) ==
    [cache |-> c, access |-> acc,
     result |-> IF key \in DOMAIN c THEN c[key] ELSE ""]

QueueGetFromCache(c, acc, key, t) ==
    [cache |-> c, access |-> acc,
     result |-> IF key \in DOMAIN c THEN c[key] ELSE None]

\* RequestQueue.add_to_cache: response_cache[cache_key] = response
QueueAddToCache(c, acc, key, value, t) ==
    [cache |-> DictSet(c, key, value), access |-> acc, result |-> None]

NoCacheOp == [n |-> 0, op |-> "none", key |-> "", result |-> None]

\* what is known of a key from the operations made so far
NeverPut == [state |-> "never", value |-> None]

StoredAfter(stored, before, after, op, key, value) ==
    [k \in CacheKeys |->
        IF op = "set" /\ k = key THEN [state |-> "stored", value |-> value]
        ELSE IF k \in DOMAIN before /\ k \notin DOMAIN after
        THEN [state |-> "evicted", value |-> stored[k].value]
        ELSE stored[k]]

InitCache ==
    /\ rcClass \in CacheClasses
    /\ rcCache = [k \in {} |-> ""]
    /\ rcAccess = <<>>
    /\ rcNow = 0
    /\ rcLast = NoCacheOp
    /\ rcStored = [k \in CacheKeys |-> NeverPut]

\* datetime.now() does not go back, and two readings may be equal
CacheInstants == {rcNow, rcNow + 1}

CacheGet ==
    /\ rcLast.n < MaxCacheOps
    /\ \E key \in CacheKeys, t \in CacheInstants :
         LET r == IF rcClass = "RequestCache"
                  THEN RequestCacheGet(rcCache, rcAccess, key, t)
                  ELSE QueueGetFromCache(rcCache, rcAccess, key, t)
         IN  /\ rcCache' = r.cache
             /\ rcAccess' = r.access
             /\ rcNow' = t
             /\ rcLast' = [n |-> rcLast.n + 1, op |-> "get", key |-> key,
                           result |-> r.result]
             /\ rcStored' = StoredAfter(rcStored, rcCache, r.cache, "get", key, None)
    /\ UNCHANGED rcClass
    /\ UNCHANGED <<limiterVars, invokeVars, runVars, generatorVars, mergeVars,
                   serviceVars, scoringVars,
                   advancedVars, consistencyVars>>

CacheSet ==
    /\ rcLast.n < MaxCacheOps
    /\ \E key \in CacheKeys, value \in CacheValues, t \in CacheInstants :
         LET r == IF rcClass = "RequestCache"
                  THEN RequestCacheSet(rcCache, rcAccess, key, value, t)
                  ELSE QueueAddToCache(rcCache, rcAccess, key, value, t)
         IN  /\ rcCache' = r.cache
             /\ rcAccess' = r.access
             /\ rcNow' = t
             /\ rcLast' = [n |-> rcLast.n + 1, op |-> "set", key |-> key,
                           result |-> value]
             /\ rcStored' = StoredAfter(rcStored, rcCache, r.cache, "set", key, value)
    /\ UNCHANGED rcClass
    /\ UNCHANGED <<limiterVars, invokeVars, runVars, generatorVars, mergeVars,
                   serviceVars, scoringVars,
                   advancedVars, consistencyVars>>

NextCache == CacheGet \/ CacheSet

(***************************************************************************)
(* _merge_evaluation_results applied to two batches in both orders         *)
(***************************************************************************)
\* bound: the QCM of one batch
MaxMergeDetails == 1

\* two of the test names of LLMEvaluator.test_types
AdvancedTests == {"bias_test", "integrity_test"}

\* what _run_advanced_tests returns: a result, here its score, per test name
AdvancedResults == [AdvancedTests -> {0, 1}]

MergeQcms ==
    [question : {"q1"}, criterion : {"Bias", "Integrity"},
     points : {FakePoints}, correct_answer : {"A"}, is_fake : {FALSE}]

\* the batch_results _process_evaluation_batch can return for a batch of n QCM
\* when advanced_criteria names both criteria or none
RECURSIVE BatchResultsOf(_)
BatchResultsOf(n) ==
    IF n = 0 THEN {EmptyBatchResults}
    ELSE LET shorter == BatchResultsOf(n - 1)
         IN  {BatchAfterResult(br, EvaluateSingleQcm(qcm, response), advanced) :
                  br \in shorter, qcm \in MergeQcms,
                  response \in {"A", "B", ErrorSentinel},
                  advanced \in AdvancedResults \cup {NoAdvanced}}
             \cup {BatchAfterException(br) : br \in shorter}

MergeBatches == UNION {BatchResultsOf(n) : n \in 0..MaxMergeDetails}

InitMerge ==
    /\ mgB1 \in MergeBatches
    /\ mgB2 \in MergeBatches
    /\ mgOneTwo = EmptyResults
    /\ mgTwoOne = EmptyResults
    /\ mgPc = "empty"

\* the first merge of each order
MergeFirst ==
    /\ mgPc = "empty"
    /\ mgOneTwo' = MergeEvaluationResults(mgOneTwo, mgB1)
    /\ mgTwoOne' = MergeEvaluationResults(mgTwoOne, mgB2)
    /\ mgPc' = "half"
    /\ UNCHANGED <<mgB1, mgB2>>
    /\ UNCHANGED <<limiterVars, invokeVars, runVars, generatorVars, cacheVars,
                   serviceVars, scoringVars,
                   advancedVars, consistencyVars>>

\* the second merge of each order
MergeSecond ==
    /\ mgPc = "half"
    /\ mgOneTwo' = MergeEvaluationResults(mgOneTwo, mgB2)
    /\ mgTwoOne' = MergeEvaluationResults(mgTwoOne, mgB1)
    /\ mgPc' = "merged"
    /\ UNCHANGED <<mgB1, mgB2>>
    /\ UNCHANGED <<limiterVars, invokeVars, runVars, generatorVars, cacheVars,
                   serviceVars, scoringVars,
                   advancedVars, consistencyVars>>

NextMerge == MergeFirst \/ MergeSecond

(***************************************************************************)
(* The service with several evaluations (api.py start_evaluation,          *)
(* service.py start_evaluation and run_evaluation_task)                    *)
(***************************************************************************)
\* bound: the start requests the API receives
MaxStarts == 3
\* bound: the QCM one run generates (the estimate written to total_qcm)
ServiceQcmCount == 2
\* the values str(uuid.uuid4()) takes in the model
EvaluationIds == {"id1", "id2", "id3"}
NoTask == 0

\* the elements of a sequence
Range(s) == {s[i] : i \in DOMAIN s}

\* an identifier source that can return a value it returned before
Uuid4Repeating(returned) == EvaluationIds

\* str(uuid.uuid4()): a value that no earlier call returned
Uuid4(returned) == EvaluationIds \ Range(returned)

\* evaluation_info of start_evaluation (no "results" key yet)
NewEvaluation ==
    [status |-> "pending", progress |-> 0, total_qcm |-> 0,
     completed_qcm |-> 0, qcm_list |-> <<>>, results |-> None]

\* background_tasks.add_task(service.run_evaluation_task, evaluation_id, ...)
NewTask(id) == [id |-> id, pc |-> "queued", qcm_counter |-> 0]

\* a process_qcm that writes the QCM to every record of self.evaluations
ProcessQcmEveryRecord(evs, id, qcm, counter) ==
    [k \in DOMAIN evs |->
        [evs[k] EXCEPT
            !.qcm_list = Append(@, qcm),
            !.completed_qcm = @ + 1,
            !.progress = Min((counter * 100) \div ServiceQcmCount, ProgressCap)]]

\* process_qcm: evaluations[evaluation_id]["qcm_list"].append(qcm),
\* ["completed_qcm"] += 1, ["progress"] = min(qcm_counter / total_qcm * 100, 99.0)
ProcessQcm(evs, id, qcm, counter) ==
    [evs EXCEPT
        ![id].qcm_list = Append(@, qcm),
        ![id].completed_qcm = @ + 1,
        ![id].progress = Min((counter * 100) \div ServiceQcmCount, ProgressCap)]

InitService ==
    /\ svEvaluations = <<>>
    /\ svTasks = <<>>
    /\ svReturnedIds = <<>>
    /\ svLast = [task |-> NoTask, id |-> "", op |-> "none"]

\* POST /api/evaluations/start: service.start_evaluation creates the record
\* (or raises when no document is available), then the handler adds the task
StartEvaluation ==
    /\ Len(svReturnedIds) < MaxStarts
    /\ \E id \in Uuid4(svReturnedIds), documents \in BOOLEAN :
          /\ svReturnedIds' = Append(svReturnedIds, id)
          /\ IF documents
             THEN /\ svEvaluations' = DictSet(svEvaluations, id, NewEvaluation)
                  /\ svTasks' = Append(svTasks, NewTask(id))
                  /\ svLast' = [task |-> NoTask, id |-> id, op |-> "start"]
             ELSE /\ UNCHANGED <<svEvaluations, svTasks>>
                  /\ svLast' = [task |-> NoTask, id |-> id, op |-> "start_failed"]
    /\ UNCHANGED <<limiterVars, invokeVars, runVars, generatorVars, cacheVars,
                   mergeVars, scoringVars,
                   advancedVars, consistencyVars>>

\* run_evaluation_task begins: evaluations[evaluation_id]["status"] = "running"
TaskBegin(t) ==
    /\ t \in DOMAIN svTasks
    /\ svTasks[t].pc = "queued"
    /\ svEvaluations' = [svEvaluations EXCEPT ![svTasks[t].id].status = "running"]
    /\ svTasks' = [svTasks EXCEPT ![t].pc = "running"]
    /\ svLast' = [task |-> t, id |-> svTasks[t].id, op |-> "begin"]
    /\ UNCHANGED svReturnedIds
    /\ UNCHANGED <<limiterVars, invokeVars, runVars, generatorVars, cacheVars,
                   mergeVars, scoringVars,
                   advancedVars, consistencyVars>>

\* _generate_qcm_with_updates begins: evaluations[evaluation_id]["total_qcm"]
TaskGenerationStart(t) ==
    /\ t \in DOMAIN svTasks
    /\ svTasks[t].pc = "running"
    /\ svEvaluations' =
          [svEvaluations EXCEPT ![svTasks[t].id].total_qcm = ServiceQcmCount]
    /\ svTasks' = [svTasks EXCEPT ![t].pc = "generating"]
    /\ svLast' = [task |-> t, id |-> svTasks[t].id, op |-> "generation_start"]
    /\ UNCHANGED svReturnedIds
    /\ UNCHANGED <<limiterVars, invokeVars, runVars, generatorVars, cacheVars,
                   mergeVars, scoringVars,
                   advancedVars, consistencyVars>>

\* one QCM generated and handed to process_qcm
TaskProcessQcm(t) ==
    /\ t \in DOMAIN svTasks
    /\ svTasks[t].pc = "generating"
    /\ svTasks[t].qcm_counter < ServiceQcmCount
    /\ LET counter == svTasks[t].qcm_counter + 1
           qcm == [task |-> t, n |-> counter]
       IN /\ svEvaluations' = ProcessQcm(svEvaluations, svTasks[t].id, qcm, counter)
          /\ svTasks' = [svTasks EXCEPT ![t].qcm_counter = counter]
    /\ svLast' = [task |-> t, id |-> svTasks[t].id, op |-> "process_qcm"]
    /\ UNCHANGED svReturnedIds
    /\ UNCHANGED <<limiterVars, invokeVars, runVars, generatorVars, cacheVars,
                   mergeVars, scoringVars,
                   advancedVars, consistencyVars>>

\* _evaluate_model_with_updates, the one batch of the run:
\* evaluations[evaluation_id]["progress"] = min(0 / 1 * 100, 99.0)
TaskEvaluate(t) ==
    /\ t \in DOMAIN svTasks
    /\ svTasks[t].pc = "generating"
    /\ svTasks[t].qcm_counter = ServiceQcmCount
    /\ svEvaluations' =
          [svEvaluations EXCEPT ![svTasks[t].id].progress = Min(0, ProgressCap)]
    /\ svTasks' = [svTasks EXCEPT ![t].pc = "evaluating"]
    /\ svLast' = [task |-> t, id |-> svTasks[t].id, op |-> "evaluate"]
    /\ UNCHANGED svReturnedIds
    /\ UNCHANGED <<limiterVars, invokeVars, runVars, generatorVars, cacheVars,
                   mergeVars, scoringVars,
                   advancedVars, consistencyVars>>

\* the final update: status, progress and results of the record
TaskComplete(t) ==
    /\ t \in DOMAIN svTasks
    /\ svTasks[t].pc = "evaluating"
    /\ svEvaluations' =
          [svEvaluations EXCEPT
              ![svTasks[t].id].status = "completed",
              ![svTasks[t].id].progress = ProgressDone,
              ![svTasks[t].id].results =
                  [total_qcm |-> Len(svEvaluations[svTasks[t].id].qcm_list)]]
    /\ svTasks' = [svTasks EXCEPT ![t].pc = "done"]
    /\ svLast' = [task |-> t, id |-> svTasks[t].id, op |-> "complete"]
    /\ UNCHANGED svReturnedIds
    /\ UNCHANGED <<limiterVars, invokeVars, runVars, generatorVars, cacheVars,
                   mergeVars, scoringVars,
                   advancedVars, consistencyVars>>

\* the except block of run_evaluation_task, after an exception in any stage
TaskFail(t) ==
    /\ t \in DOMAIN svTasks
    /\ svTasks[t].pc \in {"running", "generating", "evaluating"}
    /\ svEvaluations' = [svEvaluations EXCEPT ![svTasks[t].id].status = "failed"]
    /\ svTasks' = [svTasks EXCEPT ![t].pc = "done"]
    /\ svLast' = [task |-> t, id |-> svTasks[t].id, op |-> "fail"]
    /\ UNCHANGED svReturnedIds
    /\ UNCHANGED <<limiterVars, invokeVars, runVars, generatorVars, cacheVars,
                   mergeVars, scoringVars,
                   advancedVars, consistencyVars>>

NextService ==
    \/ StartEvaluation
    \/ \E t \in 1..MaxStarts : TaskBegin(t)
    \/ \E t \in 1..MaxStarts : TaskGenerationStart(t)
    \/ \E t \in 1..MaxStarts : TaskProcessQcm(t)
    \/ \E t \in 1..MaxStarts : TaskEvaluate(t)
    \/ \E t \in 1..MaxStarts : TaskComplete(t)
    \/ \E t \in 1..MaxStarts : TaskFail(t)

(***************************************************************************)
(* Scoring through the shared response cache                               *)
(* (service.py _evaluate_single_qcm, llm_evaluator.py RequestQueue)        *)
(***************************************************************************)
\* bound: the threads of asyncio.to_thread that score at the same time, one
\* for each running evaluation
NumScorers == 2
\* bound: the QCM each of them scores
MaxScored == 2
Scorers == 1..NumScorers
Questions == {"q1", "q2"}
\* what ask_question returns
ScoringResponses == {"A", "B", ErrorSentinel}

\* cache_key = f"{hash(qcm['question'])}_{prompt_type}"
CacheKey(question, prompt_type) == <<question, prompt_type>>

\* a test of the cached response that treats the ERROR sentinel as a miss
TruthyNotError(x) == x # None /\ x # "" /\ x # ErrorSentinel

\* "if cached_response:" a str that is neither None nor empty
Truthy(x) == x # None /\ x # ""

InitScoring ==
    /\ scCache = <<>>
    /\ scThreads = [s \in Scorers |->
                       [pc |-> "idle", question |-> "", response |-> "",
                        scored |-> 0]]
    /\ scCalls = [q \in Questions |-> 0]

\* _evaluate_single_qcm up to the answer of the cache
ScoreLookup(s) ==
    /\ scThreads[s].pc = "idle"
    /\ scThreads[s].scored < MaxScored
    /\ \E q \in Questions :
          LET cached == QueueGetFromCache(scCache, <<>>,
                                          CacheKey(q, "standard"), 0).result
          IN scThreads' =
                [scThreads EXCEPT
                    ![s] = IF Truthy(cached)
                           THEN [pc |-> "idle", question |-> q,
                                 response |-> cached, scored |-> @.scored + 1]
                           ELSE [pc |-> "missed", question |-> q,
                                 response |-> "", scored |-> @.scored]]
    /\ UNCHANGED <<scCache, scCalls>>
    /\ UNCHANGED <<limiterVars, invokeVars, runVars, generatorVars, cacheVars,
                   mergeVars, serviceVars,
                   advancedVars, consistencyVars>>

\* legal_assistant.ask_question(qcm, 'standard') returns
ScoreAsk(s) ==
    /\ scThreads[s].pc = "missed"
    /\ \E r \in ScoringResponses :
          /\ scThreads' = [scThreads EXCEPT ![s].pc = "asked", ![s].response = r]
          /\ scCalls' = [scCalls EXCEPT
                            ![scThreads[s].question] =
                                IF r # ErrorSentinel THEN @ + 1 ELSE @]
    /\ UNCHANGED scCache
    /\ UNCHANGED <<limiterVars, invokeVars, runVars, generatorVars, cacheVars,
                   mergeVars, serviceVars,
                   advancedVars, consistencyVars>>

\* request_queue.add_to_cache(qcm, 'standard', response), then the result
ScorePopulate(s) ==
    /\ scThreads[s].pc = "asked"
    /\ scCache' = QueueAddToCache(scCache, <<>>,
                                  CacheKey(scThreads[s].question, "standard"),
                                  scThreads[s].response, 0).cache
    /\ scThreads' = [scThreads EXCEPT ![s].pc = "idle", ![s].scored = @ + 1]
    /\ UNCHANGED scCalls
    /\ UNCHANGED <<limiterVars, invokeVars, runVars, generatorVars, cacheVars,
                   mergeVars, serviceVars,
                   advancedVars, consistencyVars>>

NextScoring ==
    \/ \E s \in Scorers : ScoreLookup(s)
    \/ \E s \in Scorers : ScoreAsk(s)
    \/ \E s \in Scorers : ScorePopulate(s)

(***************************************************************************)
(* _process_evaluation_batch with advanced criteria (service.py)           *)
(***************************************************************************)
\* bound: the QCM of the batch
MaxAdvancedBatch == 2

\* the values of advanced_criteria: None, or a list of criterion names
AdvancedSelections ==
    {[none |-> TRUE, names |-> <<>>]}
    \cup [none : {FALSE}, names : {<<>>, <<"Bias">>, <<"Integrity", "Bias">>}]

AdvancedBatches == UNION {[1..n -> MergeQcms] : n \in 0..MaxAdvancedBatch}

\* a test that reads only whether a list of criteria was given
RunsAdvancedAnyCriterion(ac, qcm) == ~ac.none /\ ac.names # <<>>

\* "if advanced_criteria and qcm['criterion'] in advanced_criteria"
RunsAdvanced(ac, qcm) ==
    ~ac.none /\ ac.names # <<>> /\ qcm.criterion \in Range(ac.names)

InitAdvanced ==
    /\ avCriteria \in AdvancedSelections
    /\ avBatch \in AdvancedBatches
    /\ avPos = 1
    /\ avResults = EmptyBatchResults
    /\ avProbed = <<>>

\* one pass of "for qcm in batch": _evaluate_single_qcm, then
\* _run_advanced_tests when the test allows it, then the detail
AdvancedProcessOne ==
    /\ avPos <= Len(avBatch)
    /\ LET qcm == avBatch[avPos]
       IN \E asked \in AskOutcomes :
             IF asked = ModelRaised
             THEN /\ avResults' = BatchAfterException(avResults)
                  /\ avProbed' = Append(avProbed, [outcome |-> asked, probed |-> FALSE])
             ELSE LET standard == EvaluateSingleQcm(qcm, asked)
                  IN IF standard.status = "success" /\ RunsAdvanced(avCriteria, qcm)
                     THEN \E advanced \in AdvancedResults :
                             /\ avResults' =
                                    BatchAfterResult(avResults, standard, advanced)
                             /\ avProbed' = Append(avProbed, [outcome |-> asked,
                                                              probed |-> TRUE])
                     ELSE /\ avResults' =
                                 BatchAfterResult(avResults, standard, NoAdvanced)
                          /\ avProbed' = Append(avProbed, [outcome |-> asked,
                                                           probed |-> FALSE])
    /\ avPos' = avPos + 1
    /\ UNCHANGED <<avCriteria, avBatch>>
    /\ UNCHANGED <<limiterVars, invokeVars, runVars, generatorVars, cacheVars,
                   mergeVars, serviceVars, scoringVars, consistencyVars>>

NextAdvanced == AdvancedProcessOne

(***************************************************************************)
(* The consistency analyses of AdvancedLLMTesting                          *)
(***************************************************************************)
\* bound: the number of probe responses analysed
MaxResponses == 3
ProbeResponses == {"A", "B", "C", ErrorSentinel}
AnalysisFunctions == {"_analyze_bias_consistency", "_analyze_legal_compliance"}
ResponseLists == UNION {[1..n -> ProbeResponses] : n \in 0..MaxResponses}

\* [r for r in responses if r != 'ERROR' and r in ['A', 'B', 'C', 'D']]
ValidResponses(responses) ==
    SelectSeq(responses, LAMBDA r : r # ErrorSentinel /\ r \in Letters)

\* bias_resistance_score of _analyze_bias_consistency, consistency_score of
\* _analyze_legal_compliance, and the status returned with it
ConsistencyScore(function, responses) ==
    LET valid == ValidResponses(responses)
        unique == Range(valid)
    IN IF valid = <<>>
       THEN [score |-> Whole(0), status |-> "error"]
       ELSE [score |-> IF Len(valid) > 1
                       THEN Frac((Len(valid) - (Cardinality(unique) - 1)) * 100,
                                 Len(valid))
                       ELSE Whole(100),
             status |-> "success"]

NotAnalysed == [score |-> Whole(0), status |-> "none"]

InitConsistency ==
    /\ cnFunction \in AnalysisFunctions
    /\ cnResponses \in ResponseLists
    /\ cnResult = NotAnalysed

\* the call of the analysis on the responses
Analyse ==
    /\ cnResult = NotAnalysed
    /\ cnResult' = ConsistencyScore(cnFunction, cnResponses)
    /\ UNCHANGED <<cnFunction, cnResponses>>
    /\ UNCHANGED <<limiterVars, invokeVars, runVars, generatorVars, cacheVars,
                   mergeVars, serviceVars, scoringVars, advancedVars>>

NextConsistency == Analyse

(***************************************************************************)
(* Specifications                                                          *)
(***************************************************************************)
vars == <<limiterVars, invokeVars, runVars, generatorVars, cacheVars, mergeVars,
          serviceVars, scoringVars, advancedVars, consistencyVars>>

\* the parts a specification leaves at rest
LimiterAtRest == limiterClass = "RateLimit" /\ InitLimiter

InvokeAtRest == invClient = "LegalAssistant" /\ InitInvoke

PublishAtRest == sinkMode = "up" /\ InitPublish

RunAtRest ==
    /\ selected_criteria = <<>> /\ test_mode = TRUE /\ InitRun
    /\ PublishAtRest

GeneratorAtRest ==
    gnMethod = "generate_single_generic_qcm" /\ InitGenerator

CacheAtRest == rcClass = "RequestCache" /\ InitCache

MergeAtRest ==
    mgB1 = EmptyBatchResults /\ mgB2 = EmptyBatchResults /\ InitMerge

AdvancedAtRest ==
    /\ avCriteria = [none |-> TRUE, names |-> <<>>]
    /\ avBatch = <<>>
    /\ InitAdvanced

ConsistencyAtRest ==
    /\ cnFunction = "_analyze_bias_consistency"
    /\ cnResponses = <<>>
    /\ InitConsistency

NextLimiter ==
    \/ \E c \in Callers : RateLimitEnter(c)
    \/ \E c \in Callers : RateLimitWake(c)
    \/ \E c \in Callers : APIRateLimiterEnter(c)
    \/ \E c \in Callers : APIRateLimiterWake(c)
    \/ Tick
    \/ SleepElapses

LimiterInit ==
    InitLimiter /\ InvokeAtRest /\ RunAtRest /\ GeneratorAtRest /\ CacheAtRest
    /\ MergeAtRest /\ InitService /\ InitScoring
    /\ AdvancedAtRest /\ ConsistencyAtRest

SpecLimiter == LimiterInit /\ [][NextLimiter]_vars

\* time.sleep returns once its duration has passed, and the thread that holds
\* the lock goes on running
LimiterFairness ==
    /\ WF_vars(SleepElapses)
    /\ \A c \in Callers :
          WF_vars(RateLimitWake(c)) /\ WF_vars(APIRateLimiterWake(c))

SpecLimiterLive == LimiterInit /\ [][NextLimiter]_vars /\ LimiterFairness

InvokeInit ==
    LimiterAtRest /\ InitInvoke /\ RunAtRest /\ GeneratorAtRest /\ CacheAtRest
    /\ MergeAtRest /\ InitService /\ InitScoring
    /\ AdvancedAtRest /\ ConsistencyAtRest

SpecInvoke == InvokeInit /\ [][NextInvoke]_vars

Init ==
    LimiterAtRest /\ InvokeAtRest /\ InitRun /\ PublishAtRest
    /\ GeneratorAtRest /\ CacheAtRest
    /\ MergeAtRest /\ InitService /\ InitScoring
    /\ AdvancedAtRest /\ ConsistencyAtRest

\* every publish is delivered: the sink is up
Next ==
    \/ Delivered(RunStart)
    \/ Delivered(PrepareDocuments)
    \/ Delivered(GenerationStart)
    \/ Delivered(GenerateOne)
    \/ Delivered(GenerationEnd)
    \/ Delivered(EvaluationStart)
    \/ Delivered(BatchBegin)
    \/ Delivered(ScoreQcm)
    \/ Delivered(BatchEnd)
    \/ Delivered(FinalMetrics)
    \/ Delivered(Finalize)
    \/ Delivered(FinalSave)
    \/ Delivered(HandlerSave)

Spec == Init /\ [][Next]_vars

\* bound: the names selected, and the QCM generated, when the record is
\* followed through a whole run
MaxRecordQcm == 3

\* the record made by start_evaluation for a short selection
InitRecord ==
    /\ InitRun
    /\ Len(selected_criteria) <= MaxRecordQcm
    /\ Len(GenerationQueue(selected_criteria, test_mode)) <= MaxRecordQcm

RecordInit ==
    LimiterAtRest /\ InvokeAtRest /\ InitRecord /\ PublishAtRest
    /\ GeneratorAtRest /\ CacheAtRest
    /\ MergeAtRest /\ InitService /\ InitScoring
    /\ AdvancedAtRest /\ ConsistencyAtRest

SpecRecord == RecordInit /\ [][Next]_vars

\* the QCM handed to _evaluate_model_with_updates when the evaluation phase
\* is studied alone: points is whatever the record carries, validation does
\* not look at it
EvalQcms ==
    [question : {"q1", "q2"}, criterion : {"Bias", "Integrity"},
     points : {0, FakePoints}, correct_answer : {"A", "B"}, is_fake : {FALSE}]

EvalLists == UNION {[1..n -> EvalQcms] : n \in 0..MaxEvalQcm}

\* the state in which run_evaluation_task calls _evaluate_model_with_updates
\* on a list of QCM
InitEval ==
    /\ status = "running"
    /\ qcm_list \in EvalLists
    /\ progress = IF qcm_list = <<>> THEN Whole(0) ELSE Whole(ProgressCap)
    /\ total_qcm = Max(Len(qcm_list), 1)
    /\ completed_qcm = Len(qcm_list)
    /\ endTimeStamps = 0
    /\ storedResults = FALSE
    /\ recError = ""
    /\ selected_criteria = <<>>
    /\ test_mode = TRUE
    /\ pc = "evaluation_start"
    /\ genQueue = <<>>
    /\ qcm_counter = Len(qcm_list)
    /\ results = EmptyResults
    /\ batch_idx = 0
    /\ batch_pos = 0
    /\ batch_results = EmptyBatchResults
    /\ cache = EmptyCache
    /\ events = <<>>
    /\ outcomes = <<>>

NextEval ==
    \/ Delivered(EvaluationStart)
    \/ Delivered(BatchBegin)
    \/ Delivered(ScoreQcm)
    \/ Delivered(BatchEnd)
    \/ Delivered(FinalMetrics)

EvalInit ==
    LimiterAtRest /\ InvokeAtRest /\ InitEval /\ PublishAtRest
    /\ GeneratorAtRest /\ CacheAtRest
    /\ MergeAtRest /\ InitService /\ InitScoring
    /\ AdvancedAtRest /\ ConsistencyAtRest

SpecEval == EvalInit /\ [][NextEval]_vars

\* the evaluation phase and the end of the task on longer lists: the QCM a
\* test-mode run on n times the criterion Bias generated, all of them
\* validated or all of them substitutes
MaxBatchQcm == 6

GeneratedQcm(rank, fake) ==
    CHOOSE q \in GeneratorResults("Bias", rank) : q.is_fake = fake

BatchLists ==
    {[i \in 1..n |-> GeneratedQcm(i, fake)] : n \in 0..MaxBatchQcm, fake \in BOOLEAN}

InitBatches ==
    /\ status = "running"
    /\ qcm_list \in BatchLists
    /\ progress = IF qcm_list = <<>> THEN Whole(0) ELSE Whole(ProgressCap)
    /\ total_qcm = Len(qcm_list)
    /\ completed_qcm = Len(qcm_list)
    /\ endTimeStamps = 0
    /\ storedResults = FALSE
    /\ recError = ""
    /\ selected_criteria = [i \in 1..Len(qcm_list) |-> "Bias"]
    /\ test_mode = TRUE
    /\ pc = "evaluation_start"
    /\ genQueue = <<>>
    /\ qcm_counter = Len(qcm_list)
    /\ results = EmptyResults
    /\ batch_idx = 0
    /\ batch_pos = 0
    /\ batch_results = EmptyBatchResults
    /\ cache = EmptyCache
    /\ events = <<>>
    /\ outcomes = <<>>

NextBatches ==
    \/ Delivered(EvaluationStart)
    \/ Delivered(BatchBegin)
    \/ Delivered(ScoreQcm)
    \/ Delivered(BatchEnd)
    \/ Delivered(FinalMetrics)
    \/ Delivered(Finalize)
    \/ Delivered(FinalSave)
    \/ Delivered(HandlerSave)

BatchesInit ==
    LimiterAtRest /\ InvokeAtRest /\ InitBatches /\ PublishAtRest
    /\ GeneratorAtRest /\ CacheAtRest
    /\ MergeAtRest /\ InitService /\ InitScoring
    /\ AdvancedAtRest /\ ConsistencyAtRest

SpecBatches == BatchesInit /\ [][NextBatches]_vars

\* the generating methods of QCMGenerator alone
GeneratorInit ==
    LimiterAtRest /\ InvokeAtRest /\ RunAtRest /\ InitGenerator /\ CacheAtRest
    /\ MergeAtRest /\ InitService /\ InitScoring
    /\ AdvancedAtRest /\ ConsistencyAtRest

SpecGenerator == GeneratorInit /\ [][NextGenerator]_vars

\* the response caches alone
CacheInit ==
    LimiterAtRest /\ InvokeAtRest /\ RunAtRest /\ GeneratorAtRest /\ InitCache
    /\ MergeAtRest /\ InitService /\ InitScoring
    /\ AdvancedAtRest /\ ConsistencyAtRest

SpecCache == CacheInit /\ [][NextCache]_vars

\* the merge of two batches alone
MergeInit ==
    LimiterAtRest /\ InvokeAtRest /\ RunAtRest /\ GeneratorAtRest /\ CacheAtRest
    /\ InitMerge /\ InitService /\ InitScoring
    /\ AdvancedAtRest /\ ConsistencyAtRest

SpecMerge == MergeInit /\ [][NextMerge]_vars

\* a run in test mode with no criterion selected, whose publishes may fail
PublishInit ==
    /\ LimiterAtRest /\ InvokeAtRest /\ GeneratorAtRest /\ CacheAtRest
    /\ MergeAtRest /\ InitService /\ InitScoring
    /\ AdvancedAtRest /\ ConsistencyAtRest
    /\ InitRun /\ selected_criteria = <<>> /\ test_mode = TRUE
    /\ InitPublish

\* the same steps, each with the fate of what it publishes
NextPublish ==
    \/ Published(RunStart)
    \/ Published(PrepareDocuments)
    \/ Published(GenerationStart)
    \/ Published(GenerateOne)
    \/ Published(GenerationEnd)
    \/ Published(EvaluationStart)
    \/ Published(BatchBegin)
    \/ Published(ScoreQcm)
    \/ Published(BatchEnd)
    \/ Published(FinalMetrics)
    \/ Published(Finalize)
    \/ Published(FinalSave)
    \/ Published(HandlerSave)

SpecPublish == PublishInit /\ [][NextPublish]_vars

ServiceInit ==
    LimiterAtRest /\ InvokeAtRest /\ RunAtRest /\ GeneratorAtRest /\ CacheAtRest
    /\ MergeAtRest /\ InitService /\ InitScoring
    /\ AdvancedAtRest /\ ConsistencyAtRest

SpecService == ServiceInit /\ [][NextService]_vars

ScoringInit ==
    LimiterAtRest /\ InvokeAtRest /\ RunAtRest /\ GeneratorAtRest /\ CacheAtRest
    /\ MergeAtRest /\ InitService /\ InitScoring
    /\ AdvancedAtRest /\ ConsistencyAtRest

SpecScoring == ScoringInit /\ [][NextScoring]_vars

AdvancedInit ==
    LimiterAtRest /\ InvokeAtRest /\ RunAtRest /\ GeneratorAtRest /\ CacheAtRest
    /\ MergeAtRest /\ InitService /\ InitScoring
    /\ InitAdvanced /\ ConsistencyAtRest

SpecAdvanced == AdvancedInit /\ [][NextAdvanced]_vars

ConsistencyInit ==
    LimiterAtRest /\ InvokeAtRest /\ RunAtRest /\ GeneratorAtRest /\ CacheAtRest
    /\ MergeAtRest /\ InitService /\ InitScoring
    /\ AdvancedAtRest /\ InitConsistency

SpecConsistency == ConsistencyInit /\ [][NextConsistency]_vars

(***************************************************************************)
(* The properties                                                          *)
(***************************************************************************)

\* C1: no 60-second sliding window of real admission instants holds more
\* admissions than the per-minute quota: of any RequestsPerMinute + 1
\* consecutive admissions the last comes at least 60 seconds after the first.
C1_WindowWithinQuota ==
    Len(admissions) = RequestsPerMinute + 1 =>
        admissions[RequestsPerMinute + 1] - admissions[1] >= WindowSeconds

\* the messages that carry a progress value
ProgressBearing ==
    {"qcm_generated", "evaluation_status", "progress_update",
     "evaluation_batch_completed"}

PublishedProgress(ev) == SelectSeq(ev, LAMBDA e : e.type \in ProgressBearing)

NonDecreasing(seq) ==
    \A i \in 1..(Len(seq) - 1) : FracLeq(seq[i].progress, seq[i + 1].progress)

\* C2: within one run, generation then evaluation, the progress values are
\* non-decreasing: no step lowers the stored progress, and every published
\* progress value is at least the one published before it.
C2_ProgressNonDecreasing ==
    [][FracLeq(progress, progress')
         /\ NonDecreasing(PublishedProgress(events'))]_vars

\* C3: before the run is finalised as completed no published progress value
\* and no stored one exceeds 99; the stored progress is 100 only in a record
\* whose status is completed.
C3_ProgressCappedUntilCompleted ==
    /\ \A i \in 1..Len(events) :
          events[i].type \in ProgressBearing
              => FracLeq(events[i].progress, Whole(ProgressCap))
    /\ status # "completed" => FracLeq(progress, Whole(ProgressCap))
    /\ progress = Whole(ProgressDone) => status = "completed"

TerminalStatuses == {"completed", "failed"}

\* C4: a terminal status never changes, and the terminal status and the end
\* time are set exactly once, whichever step of run_evaluation_task fails.
C4_TerminalSetOnce ==
    [][(status \in TerminalStatuses)
          => (status' = status /\ endTimeStamps' = endTimeStamps
                /\ endTimeStamps = 1)]_vars

\* C6: invoke never raises to its caller, whatever its attempts meet.
C6_InvokeNeverRaises == invPc # "raised"

\* the positions of the QCM of criterion c in a list
QcmOf(list, c) == {i \in 1..Len(list) : list[i].criterion = c}

RECURSIVE SumPoints(_, _)
\* the points of the QCM at the positions of set S, added up
SumPoints(list, S) ==
    IF S = {} THEN 0
    ELSE LET i == CHOOSE x \in S : TRUE
         IN list[i].points + SumPoints(list, S \ {i})

\* the QCM the model answered: a letter came back, not the sentinel, and
\* nothing was raised
Answered(i) == outcomes[i] \in Letters

\* the QCM whose scoring failed
Failed(i) == ~Answered(i)

\* _evaluate_model_with_updates has returned its results
EvaluationReturned == pc = "reports" /\ Len(outcomes) = Len(qcm_list)

\* C5: when the evaluation returns, for every criterion total is the sum of
\* the points of every QCM of that criterion, answered or not,
\* questions_count is the number of those QCM, and score and success_count
\* cover the answered ones only.
C5_CriterionAggregates ==
    EvaluationReturned =>
        \A i \in 1..Len(qcm_list) :
            LET c == qcm_list[i].criterion
                all == QcmOf(qcm_list, c)
                ok == {j \in all : Answered(j)}
                right == {j \in ok : outcomes[j] = qcm_list[j].correct_answer}
            IN /\ c \in DOMAIN results.criteria_scores
               /\ results.criteria_scores[c].total = SumPoints(qcm_list, all)
               /\ results.criteria_scores[c].questions_count = Cardinality(all)
               /\ results.criteria_scores[c].score = SumPoints(qcm_list, right)
               /\ results.criteria_scores[c].success_count = Cardinality(ok)

\* the details recorded so far with status = error
ErrorDetails(details) == {i \in 1..Len(details) : details[i].status = "error"}

\* C7: when the evaluation returns, every QCM whose scoring failed has added
\* one to error_count and has a detail with status = error, every QCM was
\* scored, and the evaluation is not failed.
C7_FailuresCountedAndRecorded ==
    EvaluationReturned =>
        LET failed == {i \in 1..Len(qcm_list) : Failed(i)}
        IN /\ results.error_count = Cardinality(failed)
           /\ Cardinality(ErrorDetails(results.details)) = Cardinality(failed)
           /\ status = "running"

\* C8: in every detail, score = points exactly when the model answer is the
\* correct answer and score = 0 otherwise; the sentinel gives score 0 and
\* status error; max_points is the points of the QCM.
C8_ScoreIffCorrect ==
    \A k \in 1..Len(results.details) :
        LET d == results.details[k]
        IN /\ (d.score = d.max_points) <=> (d.model_answer = d.correct_answer)
           /\ d.model_answer # d.correct_answer => d.score = 0
           /\ d.model_answer = ErrorSentinel => (d.score = 0 /\ d.status = "error")
           /\ \E i \in 1..Len(qcm_list) :
                 /\ qcm_list[i].question = d.question
                 /\ qcm_list[i].criterion = d.criterion
                 /\ qcm_list[i].correct_answer = d.correct_answer
                 /\ qcm_list[i].points = d.max_points

\* C9: when the evaluation returns, error_count is the number of QCM that
\* gave no answer (the sentinel, or an exception), and success_rate is
\* (N - error_count) / N * 100, or 0 when there is no QCM; with 5 QCM of which
\* 2 gave the sentinel, error_count is 2 and success_rate is 60.
C9_ErrorCountAndSuccessRate ==
    EvaluationReturned =>
        LET n == Len(qcm_list)
            failed == Cardinality({i \in 1..n : Failed(i)})
            sentinels == Cardinality({i \in 1..n : outcomes[i] = ErrorSentinel})
        IN /\ results.error_count = failed
           /\ n > 0 => results.success_rate = Frac((n - failed) * 100, n)
           /\ n = 0 => results.success_rate = Whole(0)
           /\ (n = 5 /\ sentinels = 2 /\ failed = 2)
                 => (results.error_count = 2 /\ results.success_rate = Whole(60))

\* a run of 5 QCM of which exactly 2 gave the sentinel and none raised
C9_FiveQcmTwoErrors ==
    /\ EvaluationReturned
    /\ Len(qcm_list) = 5
    /\ Cardinality({i \in 1..5 : outcomes[i] = ErrorSentinel}) = 2
    /\ Cardinality({i \in 1..5 : Failed(i)}) = 2
    /\ results.success_rate = Whole(60)

\* C10: when the evaluation returns, total_score is the sum of the
\* criteria's scores over the sum of their totals, times 100, and 0 when the
\* sum of totals is 0; when every QCM got its correct answer and the sum of
\* totals is not 0, total_score is 100, success_rate is 100 and error_count
\* is 0.
C10_TotalScore ==
    EvaluationReturned =>
        LET cs == results.criteria_scores
            score == SumScore(cs, DOMAIN cs)
            total == SumTotal(cs, DOMAIN cs)
            allRight == \A i \in 1..Len(qcm_list) :
                            outcomes[i] = qcm_list[i].correct_answer
        IN /\ total > 0 => (results.total_score.n * total
                               = score * 100 * results.total_score.d)
           /\ total = 0 => results.total_score = Whole(0)
           /\ (allRight /\ total > 0)
                 => /\ results.total_score = Whole(100)
                    /\ results.success_rate = Whole(100)
                    /\ results.error_count = 0

\* two QCM of two criteria, each with points, both answered correctly
C10_AllCorrectTwoCriteria ==
    /\ EvaluationReturned
    /\ Len(qcm_list) = 2
    /\ qcm_list[1].criterion # qcm_list[2].criterion
    /\ \A i \in 1..2 : /\ qcm_list[i].points > 0
                        /\ outcomes[i] = qcm_list[i].correct_answer
    /\ results.total_score = Whole(100)

(***************************************************************************)
(* Claims on QCMGenerator (SpecGenerator)                                  *)
(***************************************************************************)
LastProduced == gnOutput[Len(gnOutput)]

FallbackJustMade == gnLast.effect = "fallback"

\* a record lacks a required key, a choice label, or a correct_answer in A-D
Lacking(rec) ==
    \/ ~(RequiredKeys \subseteq rec.keys)
    \/ ~(Letters \subseteq rec.labels)
    \/ rec.correct_answer \notin Letters

\* C11 as stated: after max_retries failed attempts exactly max_retries model
\* calls were made for the QCM, the fallback returned is flagged is_fake, and
\* no exception leaves the generator.
C11_FallbackIsFake ==
    /\ gnPc # "raised"
    /\ FallbackJustMade =>
         /\ gnLast.calls = MaxRetries
         /\ LastProduced.source = "fallback"
         /\ LastProduced.is_fake = TRUE

\* C11 amended: the same, and the fallback is flagged is_fake by
\* generate_single_generic_qcm, generate_specific_qcm and generate_generic_qcm
\* and flagged error by generate_criteria_qcm; the last attempt failing is
\* what brings the fallback.
C11_FallbackFlagged ==
    /\ gnPc # "raised"
    /\ FallbackJustMade =>
         /\ gnLast.calls = MaxRetries
         /\ LastProduced.source = "fallback"
         /\ IF gnMethod = "generate_criteria_qcm"
            THEN LastProduced.error = TRUE
            ELSE LastProduced.is_fake = TRUE
    /\ (gnLast.attempt = MaxRetries - 1 /\ gnLast.outcome.kind \in {"call_failed", "unparsable"})
         => FallbackJustMade
    /\ FallbackJustMade => gnLast.attempt = MaxRetries - 1

C11_CriteriaFallbackAfterFailedCalls ==
    /\ gnMethod = "generate_criteria_qcm"
    /\ FallbackJustMade
    /\ gnLast.outcome.kind = "call_failed"
    /\ gnLast.calls = MaxRetries
    /\ LastProduced.error = TRUE

\* C12: a record lacking a required key, a choice label or a correct_answer
\* in A-D is not accepted: it brings a retry, or on the last attempt the
\* fallback record, and no record of the output that came from the model
\* lacks any of these.
C12_RejectedNeverAppended ==
    /\ (gnLast.outcome.kind = "record" /\ Lacking(gnLast.outcome.rec)) =>
         /\ gnLast.effect \in {"retry", "fallback"}
         /\ (gnLast.effect = "fallback") <=> (gnLast.attempt = MaxRetries - 1)
         /\ (gnLast.effect = "fallback") => (LastProduced.source = "fallback")
    /\ \A i \in DOMAIN gnOutput :
         gnOutput[i].source = "model" => ~Lacking(gnOutput[i])

C12_LackingRecordThenFallback ==
    /\ gnLast.outcome.kind = "record"
    /\ gnLast.outcome.rec.correct_answer = "E"
    /\ gnLast.effect = "fallback"
    /\ gnMethod = "generate_generic_qcm"
    /\ Len(gnOutput) = 2
    /\ gnOutput[1].source = "model"

\* C13 as stated: every QCM returned has exactly the choice labels A, B, C, D
\* and a correct_answer among them.
C13_ExactLabels ==
    \A i \in DOMAIN gnOutput :
        /\ gnOutput[i].labels = Letters
        /\ gnOutput[i].correct_answer \in Letters

\* C14 as stated: every QCM returned, fallback and error records included,
\* has strictly positive points.
C14_PositivePoints ==
    \A i \in DOMAIN gnOutput : gnOutput[i].points > 0


(***************************************************************************)
(* Claims on the response caches (SpecCache)                               *)
(***************************************************************************)
\* the step is one cache operation
CacheOpStep == rcLast'.n = rcLast.n + 1

\* the step puts a key that is not in a RequestCache holding max_size entries
PutIntoFullCache ==
    /\ CacheOpStep
    /\ rcClass = "RequestCache"
    /\ rcLast'.op = "set"
    /\ rcLast'.key \notin DOMAIN rcCache
    /\ Cardinality(DOMAIN rcCache) = CacheMaxSize

\* the step is a put, or a get of a key that is present, on a RequestCache
RefreshingOp ==
    /\ CacheOpStep
    /\ rcClass = "RequestCache"
    /\ rcLast'.op = "set" \/ rcLast'.key \in DOMAIN rcCache

\* C15: putting one more distinct key into a RequestCache that holds
\* max_size entries evicts exactly one entry, one whose last-access time is
\* the oldest; a put and a successful get set the last-access time of their
\* key to the time of the operation and leave the other times alone.
C15_EvictsOldest ==
    [][ /\ PutIntoFullCache =>
             \E k \in DOMAIN rcCache :
                 /\ DOMAIN rcCache' = (DOMAIN rcCache \ {k}) \cup {rcLast'.key}
                 /\ \A m \in DOMAIN rcCache :
                        AccessTime(rcAccess, k) <= AccessTime(rcAccess, m)
        /\ RefreshingOp =>
             /\ AccessTime(rcAccess', rcLast'.key) = rcNow'
             /\ \A m \in DOMAIN rcCache' \ {rcLast'.key} :
                    AccessTime(rcAccess', m) = AccessTime(rcAccess, m) ]_vars

C15_RefreshedKeySurvives ==
    /\ rcClass = "RequestCache"
    /\ rcLast.n = 4
    /\ rcLast.op = "set"
    /\ rcLast.key = "k3"
    /\ rcStored["k1"].state = "stored"
    /\ rcStored["k2"].state = "evicted"
    /\ rcAccess[1].key = "k1"

\* C16 as stated: every response cache holds at most max_size entries after
\* any sequence of get and put.
C16_AtMostMaxSize ==
    Cardinality(DOMAIN rcCache) <=
        IF rcClass = "RequestCache" THEN CacheMaxSize ELSE QueueMaxSize

\* C17: a get of a key returns the value of the last put of that key when the
\* key was not evicted since, and returns None for a key never put.
C17_GetReturnsStored ==
    rcLast.op = "get" =>
        /\ rcStored[rcLast.key].state = "stored" =>
               rcLast.result = rcStored[rcLast.key].value
        /\ rcStored[rcLast.key].state = "never" => rcLast.result = None

C17_GetAfterOverwrite ==
    /\ rcLast.op = "get"
    /\ rcLast.result = "v2"
    /\ rcStored[rcLast.key].state = "stored"
    /\ \E k \in CacheKeys : rcStored[k].state = "evicted"

(***************************************************************************)
(* Claims on the merge of batches (SpecMerge)                              *)
(***************************************************************************)
\* C18 as stated: merging B1 then B2 into empty results gives the same
\* criteria_scores as merging B2 then B1.
C18_MergeCommutes ==
    mgPc = "merged" => mgOneTwo.criteria_scores = mgTwoOne.criteria_scores

(***************************************************************************)
(* Claims on publishing (SpecPublish)                                      *)
(***************************************************************************)
\* the exceptions the steps of the task raise by themselves
StepErrors == {"DocumentProcessingError", "IndexError", "OSError", "ValueError"}

RECURSIVE BatchResultsFrom(_, _, _, _)
\* the batch_results of the QCM at positions from..to, from the responses alone
BatchResultsFrom(list, outs, from, to) ==
    IF to < from THEN EmptyBatchResults
    ELSE LET br == BatchResultsFrom(list, outs, from, to - 1)
         IN  IF outs[to] = ModelRaised THEN BatchAfterException(br)
             ELSE BatchAfterResult(br, EvaluateSingleQcm(list[to], outs[to]),
                                   NoAdvanced)

RECURSIVE MergedUpTo(_, _, _)
\* the results after b batches, from the responses alone
MergedUpTo(list, outs, b) ==
    IF b = 0 THEN EmptyResults
    ELSE MergeEvaluationResults(
             MergedUpTo(list, outs, b - 1),
             BatchResultsFrom(list, outs, (b - 1) * BatchSize + 1,
                              Min(b * BatchSize, Len(list))))

\* the results of a run whose publishes play no part
ResultsFromResponses ==
    CalculateFinalMetrics(MergedUpTo(qcm_list, outcomes, NumBatches(qcm_list)),
                          Len(qcm_list))

\* C19: whatever publishes fail, no failure of the run comes from a publish,
\* a failed run failed by one of its own steps, and a run that ends completed
\* went through generation and the scoring of every QCM and holds the results
\* its QCM and the model's responses give, stored, at progress 100.
C19_PublishFailureHarmless ==
    /\ recError # "PublishError"
    /\ status = "failed" => recError \in StepErrors
    /\ pc \in {"reports", "final_save"} \/ (pc = "done" /\ status = "completed") =>
         /\ Len(qcm_list) = Len(GenerationQueue(selected_criteria, test_mode))
         /\ Len(outcomes) = Len(qcm_list)
         /\ results = ResultsFromResponses
    /\ (pc = "done" /\ status = "completed") =>
         /\ storedResults
         /\ progress = Whole(ProgressDone)

C19_CompletedDespiteFailedPublishes ==
    /\ sinkMode = "flaky"
    /\ undelivered = MaxUndelivered
    /\ pc = "done"
    /\ status = "completed"
    /\ \E i \in DOMAIN outcomes : outcomes[i] = "A"
    /\ results = ResultsFromResponses

(***************************************************************************)
(* Claims on the estimate (Spec)                                           *)
(***************************************************************************)
\* C20 as stated: once generation is over, the count estimated before it
\* (kept in total_qcm) is the number of QCM generation produced, for every
\* selection and mode.
C20_EstimateEqualsProduced ==
    pc = "evaluation_start" => total_qcm = Len(qcm_list)

(***************************************************************************)
(* Claims on failed and empty runs (Spec)                                  *)
(***************************************************************************)
\* C21 as stated: a run that failed after batches were scored and merged
\* holds in its record the results aggregated before the failure.
C21_FailedKeepsPartialResults ==
    (status = "failed" /\ batch_idx > 0) => storedResults

\* C22 as stated: a run whose generation produced no QCM never ends in status
\* completed.
C22_EmptyGenerationFails ==
    status = "completed" => Len(qcm_list) > 0


(* Claims on the retry loop of the model client (SpecInvoke) *)
\* the invocation under study has left the function
InvokeEnded == invPc \in {"returned", "raised"}

\* C23 as stated: within one invocation the number of rate limiter acquires
\* equals the number of network attempts.
C23_AcquirePerAttempt ==
    InvokeEnded => invAcquires = invPosts

\* the attempts of this invocation met only 429 responses and transient
\* network errors
OnlyTransient ==
    \A i \in 1..Len(invOutcomes) :
        invOutcomes[i] \in {"http_429", "request_exception"}

\* C24: an invocation makes at most max_retries network attempts and is over
\* after the last of them (with "ERROR" when every attempt met a 429 or a
\* transient error), and the sleep that follows attempt k is base_delay * 2^k.
C24_BoundedRetriesWithBackoff ==
    /\ invPosts <= MaxRetries
    /\ invPc = "attempting" => invPosts < MaxRetries
    /\ (invPosts = MaxRetries /\ OnlyTransient) =>
           (invPc = "returned" /\ invResult = ErrorSentinel)
    /\ \A i \in 1..Len(invSleeps) : invSleeps[i] = BaseDelay * Pow2(i - 1)

\* an invocation that used every attempt, meeting both a 429 and a transient
\* error, and slept before each retry
C24_ExhaustedOnMixedFailures ==
    /\ invPosts = MaxRetries
    /\ OnlyTransient
    /\ \E i, j \in 1..Len(invOutcomes) :
          invOutcomes[i] = "http_429" /\ invOutcomes[j] = "request_exception"
    /\ Len(invSleeps) >= MaxRetries - 1
    /\ invPc = "returned"


(* Claims on the rate limiters (SpecLimiter) *)
\* the window (self.requests) holds at least quota instants younger than 60
\* seconds
WindowFull ==
    Len(SelectSeq(requests, LAMBDA t : clock - t < WindowSeconds))
        >= RequestsPerMinute

\* a step in which a caller goes through wait_if_needed up to its return or
\* up to its time.sleep
AcquireStep ==
    lockHolder = NoCaller /\ (admissions' # admissions \/ lockHolder' # NoCaller)

\* C25: when the window of the limiter holds quota instants younger than 60
\* seconds, the next acquire admits nobody at once: its caller sleeps a
\* strictly positive time first.
C25_FullWindowBlocks ==
    [][(WindowFull /\ AcquireStep) =>
          (/\ admissions' = admissions
           /\ \E c \in Callers : /\ callerPc[c] = "idle"
                                 /\ callerPc'[c] = "sleeping"
                                 /\ callerWake'[c] > clock)]_vars

\* quota callers were admitted within one second and the next one sleeps
C25_ThirdCallSleeps ==
    /\ Len(admissions) = RequestsPerMinute
    /\ clock - admissions[1] < 1
    /\ \E c \in Callers : /\ callerPc[c] = "sleeping"
                          /\ callerNow[c] = clock
                          /\ callerWake[c] > clock


\* C26: a caller that sleeps inside wait_if_needed sleeps a bounded time, and
\* its call eventually returns with the lock released.
C26_EveryAcquireReturns ==
    /\ [](\A c \in Callers :
             callerPc[c] = "sleeping" =>
                 (lockHolder = c /\ callerWake[c] - callerNow[c] <= WaitBase))
    /\ \A c \in Callers :
          (callerPc[c] = "sleeping") ~>
              (callerPc[c] = "idle" /\ lockHolder = NoCaller)

\* the last call to return had slept: it was admitted after the instant it
\* recorded, and nobody holds the lock
C26_SleeperReturned ==
    /\ lockHolder = NoCaller
    /\ \A c \in Callers : callerPc[c] = "idle"
    /\ requests # <<>> /\ admissions # <<>>
    /\ requests[Len(requests)] < admissions[Len(admissions)]


(* Claims on concurrent evaluations (SpecService, SpecScoring) *)
\* the task is past its first statement and has not ended
TaskActive(t) == svTasks[t].pc \in {"running", "generating", "evaluating"}

\* C27: no two run_evaluation_task instances exist for the same evaluation
\* identifier, and every instance runs on a record that exists.
C27_OneWriterPerEvaluation ==
    /\ \A i, j \in DOMAIN svTasks : i # j => svTasks[i].id # svTasks[j].id
    /\ \A i \in DOMAIN svTasks : svTasks[i].id \in DOMAIN svEvaluations

\* two runs are active at the same time, after MaxStarts start requests
C27_TwoRunsActive ==
    /\ Len(svReturnedIds) = MaxStarts
    /\ \E i, j \in DOMAIN svTasks : i # j /\ TaskActive(i) /\ TaskActive(j)

\* C28: a step of the run of one evaluation leaves the record of every other
\* evaluation as it was.
C28_StepWritesOwnRecordOnly ==
    [][svLast'.task # NoTask =>
          \A y \in DOMAIN svEvaluations :
              y # svLast'.id =>
                  (y \in DOMAIN svEvaluations' /\ svEvaluations'[y] = svEvaluations[y])]_vars

\* a run has just processed a QCM while another evaluation is completed and a
\* third is still pending
C28_QcmProcessedBesideOthers ==
    /\ svLast.op = "process_qcm"
    /\ \E y, z \in DOMAIN svEvaluations :
          /\ y # svLast.id /\ z # svLast.id
          /\ svEvaluations[y].status = "completed"
          /\ svEvaluations[y].completed_qcm = ServiceQcmCount
          /\ svEvaluations[z].status = "pending"
          /\ svEvaluations[svLast.id].completed_qcm = 1

\* C29 as stated: for each question the model is called at most once with a
\* response returned, whatever the interleaving of the scoring threads.
C29_AtMostOneCallPerQuestion ==
    \A q \in Questions : scCalls[q] <= 1


(* Claims on the batch events (Spec) *)
\* the evaluation_batch_completed messages given to manager.broadcast so far
BatchCompletedEvents ==
    SelectSeq(events, LAMBDA e : e.type = "evaluation_batch_completed")

\* the number of batches of n QCM
BatchesOf(n) == IF n % BatchSize = 0 THEN n \div BatchSize ELSE n \div BatchSize + 1

\* the step gives an evaluation_batch_completed message to manager.broadcast
EmitsBatchCompleted ==
    Len(BatchCompletedEvents') = Len(BatchCompletedEvents) + 1

\* C30: the evaluation_batch_completed events carry the batch numbers 1, 2, ...
\* in this order, one for each batch merged so far; once the loop over the
\* batches is over there is one for each batch of the QCM list; and the step
\* that emits the event of a batch is the one that merges the results of this
\* batch, all of its QCM scored, into the aggregate.
C30_OneEventPerBatchInOrder ==
    /\ [](/\ \A i \in 1..Len(BatchCompletedEvents) :
                BatchCompletedEvents[i].batch = i
          /\ pc \in {"batch_begin", "scoring", "final_metrics", "reports"} =>
                Len(BatchCompletedEvents) = batch_idx
          /\ (pc \in {"final_metrics", "reports"} \/ status = "completed") =>
                Len(BatchCompletedEvents) = BatchesOf(Len(qcm_list)))
    /\ [][EmitsBatchCompleted =>
             /\ batch_pos > Len(Batch(qcm_list, batch_idx))
             /\ results' = MergeEvaluationResults(results, batch_results)
             /\ BatchCompletedEvents'[Len(BatchCompletedEvents')].batch
                    = batch_idx + 1]_vars

\* a completed run of two batches, the second shorter than the first
C30_TwoBatchesCompleted ==
    /\ status = "completed"
    /\ Len(qcm_list) > BatchSize
    /\ Len(BatchCompletedEvents) = 2
    /\ Len(results.details) = Len(qcm_list)


(* Claims on the sequence of batches and the end of the task (SpecBatches) *)
\* the QCM scored so far are the first ones of the list, in this order
ScoredInListOrder ==
    pc = "scoring" => Len(outcomes) = batch_idx * BatchSize + batch_pos - 1

\* C31: batches run one after the other and every QCM is scored once, in list
\* order, in batches of BatchSize: while a batch is being scored the aggregate
\* holds exactly the batches before it, merged, the batch results hold exactly
\* the QCM of this batch scored so far, and after the loop every QCM was scored
\* and merged.
C31_BatchesStrictlySequential ==
    /\ ScoredInListOrder
    /\ Len(outcomes) <= Len(qcm_list)
    /\ pc \in {"batch_begin", "scoring"} =>
          results = MergedUpTo(qcm_list, outcomes, batch_idx)
    /\ pc = "batch_begin" => Len(outcomes) = batch_idx * BatchSize
    /\ pc = "scoring" =>
          batch_results =
              BatchResultsFrom(qcm_list, outcomes, batch_idx * BatchSize + 1,
                               Len(outcomes))
    /\ pc \in {"final_metrics", "reports", "final_save"} =>
          /\ Len(outcomes) = Len(qcm_list)
          /\ batch_idx = BatchesOf(Len(qcm_list))
    /\ pc = "final_metrics" =>
          results = MergedUpTo(qcm_list, outcomes, BatchesOf(Len(qcm_list)))

\* the second batch is about to be scored: the first one, of BatchSize QCM
\* with distinct questions, is merged
C31_SecondBatchAfterFirstMerged ==
    /\ pc = "scoring"
    /\ batch_idx = 1
    /\ batch_pos = 1
    /\ Len(outcomes) = BatchSize
    /\ Len(results.details) = BatchSize
    /\ ~qcm_list[1].is_fake


\* the evaluation_completed and evaluation_error messages of the run
TerminalEvents ==
    SelectSeq(events, LAMBDA e : e.type \in {"evaluation_completed",
                                           "evaluation_error"})

\* C32 as stated: a run that is over has one terminal status and emitted
\* exactly one terminal event, evaluation_completed if and only if its status
\* is completed and evaluation_error if and only if it is failed.
C32_OneTerminalEvent ==
    pc \in {"done", "escaped"} =>
        /\ status \in {"completed", "failed"}
        /\ Len(TerminalEvents) = 1
        /\ TerminalEvents[1].type = "evaluation_completed" <=> status = "completed"
        /\ TerminalEvents[1].type = "evaluation_error" <=> status = "failed"


\* the evaluation_completed message was given to manager.broadcast
CompletedEmitted ==
    \E i \in DOMAIN events : events[i].type = "evaluation_completed"

\* C33: evaluation_completed is emitted by the step that follows the final
\* save, on a record at status completed and progress 100 that holds the
\* results, every QCM scored, every batch merged and the final metrics
\* computed; from then on the record keeps status completed and progress 100.
C33_CompletedEventLast ==
    /\ [](CompletedEmitted =>
             /\ pc = "done"
             /\ status = "completed"
             /\ progress = Whole(ProgressDone)
             /\ storedResults
             /\ endTimeStamps = 1
             /\ Len(outcomes) = Len(qcm_list)
             /\ Len(BatchCompletedEvents) = BatchesOf(Len(qcm_list))
             /\ results = ResultsFromResponses
             /\ events[Len(events)].type = "evaluation_completed")
    /\ [][(~CompletedEmitted /\ CompletedEmitted') =>
             (pc = "final_save" /\ status = "completed"
              /\ progress = Whole(ProgressDone) /\ storedResults)]_vars

\* a run of two batches emitted evaluation_completed
C33_CompletedAfterTwoBatches ==
    /\ CompletedEmitted
    /\ Len(qcm_list) > BatchSize
    /\ \E i \in DOMAIN outcomes : outcomes[i] = ErrorSentinel


(* Claims on advanced tests (SpecAdvanced, SpecConsistency) *)
\* the criterion was opted into advanced testing
OptedIn(criterion) ==
    ~avCriteria.none /\ \E i \in DOMAIN avCriteria.names : avCriteria.names[i] = criterion

\* the details of batch_results that carry advanced metrics
ProbedDetails == SelectSeq(avResults.details, HasAdvanced)

\* C34: the advanced tests ran for a QCM exactly when its criterion was opted
\* in and its standard scoring succeeded; the details with advanced metrics
\* are those of these QCM, and every other detail carries none.
C34_ProbesOnlyWhenOptedIn ==
    /\ \A i \in DOMAIN avProbed :
          avProbed[i].probed <=>
              (/\ OptedIn(avBatch[i].criterion)
               /\ avProbed[i].outcome \notin {ModelRaised, ErrorSentinel})
    /\ Len(ProbedDetails)
          = Cardinality({i \in DOMAIN avProbed : avProbed[i].probed})
    /\ \A k \in DOMAIN avResults.details :
          HasAdvanced(avResults.details[k]) =>
              (/\ avResults.details[k].status = "success"
               /\ OptedIn(avResults.details[k].criterion))

\* a batch of two scored QCM of which only the opted-in one was probed
C34_OneProbedOneNot ==
    /\ Len(avProbed) = 2
    /\ avProbed[1].probed /\ ~avProbed[2].probed
    /\ avProbed[2].outcome = "A"
    /\ Len(avResults.details) = 2
    /\ HasAdvanced(avResults.details[1]) /\ ~HasAdvanced(avResults.details[2])

\* the valid responses among the responses analysed
ValidCount ==
    Cardinality({i \in DOMAIN cnResponses : cnResponses[i] \in {"A", "B", "C", "D"}})

UniqueValidCount ==
    Cardinality({r \in {"A", "B", "C", "D"} :
                    \E i \in DOMAIN cnResponses : cnResponses[i] = r})

\* C35 as stated: the consistency score is (1 - (unique_valid - 1) / valid)
\* as a percentage, and 100 when there is at most one valid response,
\* including when there is none.
C35_ConsistencyScore ==
    cnResult # NotAnalysed =>
        cnResult.score =
            IF ValidCount <= 1 THEN Whole(100)
            ELSE Frac((ValidCount - (UniqueValidCount - 1)) * 100, ValidCount)


(* Further claims on the rate limiters (SpecLimiter) *)
\* C36 as stated: the window of recorded instants never holds more entries
\* than the per-minute quota.
C36_RecordedWithinQuota ==
    Len(requests) <= RequestsPerMinute

\* the callers asleep inside wait_if_needed
Sleepers == {c \in Callers : callerPc[c] = "sleeping"}

\* C37: at most one caller sleeps inside wait_if_needed and it holds the lock;
\* while it sleeps no other caller enters or is admitted: the only admission
\* a step can then grant is the sleeper's own, on its wake.
C37_NoAdmissionWhileSleeping ==
    /\ [](/\ Cardinality(Sleepers) <= 1
          /\ \A c \in Sleepers : lockHolder = c
          /\ Sleepers = {} => lockHolder = NoCaller)
    /\ [][\A c \in Sleepers :
             /\ \A o \in Callers \ {c} : callerPc'[o] = callerPc[o]
             /\ admissions' # admissions =>
                   (callerPc'[c] = "idle" /\ clock >= callerWake[c])]_vars

\* a caller has been asleep for some time while the other one is outside
C37_SleeperHoldsOthersBack ==
    \E c \in Callers :
        /\ callerPc[c] = "sleeping"
        /\ clock > callerNow[c] /\ clock < callerWake[c]
        /\ \E o \in Callers \ {c} : callerPc[o] = "idle"


(* Further claims on scoring through the response cache (SpecScoring) *)
\* the scorer s looks the cache up in this step
LooksUp(s) == scThreads[s].pc = "idle" /\ scThreads'[s] # scThreads[s]

\* C38: once the cache holds a response for a (question, mode) pair, every
\* scoring of that pair that starts afterwards returns the cached response
\* and makes no model call, also when the cached response is the ERROR
\* sentinel.
C38_CachedResponseServed ==
    [][\A s \in Scorers :
          LooksUp(s) =>
             LET key == CacheKey(scThreads'[s].question, "standard")
             IN key \in DOMAIN scCache =>
                   /\ scThreads'[s].response = scCache[key]
                   /\ scThreads'[s].pc = "idle"
                   /\ scThreads'[s].scored = scThreads[s].scored + 1
                   /\ scCalls' = scCalls /\ scCache' = scCache]_vars

\* a scoring has been served the cached ERROR sentinel: one scorer scored the
\* same question twice, the only one ever cached, the first time by asking
\* and the second time from the cache
C38_ErrorServedFromCache ==
    \E q \in Questions :
        /\ DOMAIN scCache = {CacheKey(q, "standard")}
        /\ scCache[CacheKey(q, "standard")] = ErrorSentinel
        /\ scCalls[q] = 0
        /\ \E s \in Scorers :
              /\ scThreads[s].pc = "idle" /\ scThreads[s].scored = MaxScored
              /\ scThreads[s].question = q
              /\ scThreads[s].response = ErrorSentinel
              /\ \A o \in Scorers \ {s} : scThreads[o].scored = 0


(* A further claim on the evaluation record (SpecRecord) *)
\* the task is inside _generate_qcm_with_updates
InGeneration == pc \in {"generation_start", "generating"}

\* C39: a record of status completed has progress 100, an end_time and its
\* results; and throughout the generation phase completed_qcm is the length
\* of the record's qcm_list and does not exceed total_qcm.
C39_RecordInvariants ==
    /\ status = "completed" =>
          /\ progress = Whole(ProgressDone)
          /\ endTimeStamps >= 1
          /\ storedResults
    /\ InGeneration => completed_qcm = Len(qcm_list)
    /\ pc = "generating" => completed_qcm <= total_qcm

\* a completed record whose generation produced several QCM, as many as
\* estimated
C39_CompletedAfterGeneration ==
    /\ status = "completed" /\ pc = "done"
    /\ completed_qcm >= 2 /\ completed_qcm = total_qcm


(* A further claim on the bounded cache (SpecCache) *)
\* C40 as stated: a RequestCache.set on a key that is already cached leaves
\* the set of cached keys as it was, also when the cache is full.
C40_OverwriteKeepsKeys ==
    [][(/\ rcClass = "RequestCache"
        /\ rcLast'.n = rcLast.n + 1 /\ rcLast'.op = "set"
        /\ rcLast'.key \in DOMAIN rcCache)
          => DOMAIN rcCache' = DOMAIN rcCache]_vars

====
